---- MODULE Spec2Model ----
(***************************************************************************)
(* A model of spotifyatlas: the client registry (baseapi.py), the token   *)
(* lifecycle and the authorization handshake (spotifyapi.py), the paged   *)
(* retrieval of playlists and albums, and the playlist mutators of        *)
(* spotifyapi.py and datastructs.py.                                      *)
(***************************************************************************)
EXTENDS Integers, Sequences, FiniteSets, TLC

\* ------------------------------------------------------------------ bounds

MaxObjects == 3
MaxMade == 3

\* ------------------------------------------------------------------ state

VARIABLES
    now,          \* the reading of datetime.datetime.now()
    heap,         \* object id -> the object's fields (cls = "none": no object)
    instances,    \* BaseSpotifyAPI._instances: client id -> object id (0: no entry)
    refs,         \* the object ids the program holds a strong reference to
    made,         \* the constructions done so far: what was passed, what came back
    pc,           \* "idle"; "listening": server.handle_request() is blocked;
                  \* "returned": a call has just returned to its caller
    pending,      \* the call that waits for the redirect (op, self, state nonce)
    remote,       \* the provider's playlists: playlist id -> [exists, tracks]
    objs,         \* the program's Playlist objects: playlist id -> [made, loaded, tracks]
    last          \* the call that returned last: what it was, sent, raised, returned

vars == <<now, heap, instances, refs, made, pc, pending, remote, objs, last>>

regVars == <<instances, refs, made>>

ObjIds == 1..MaxObjects

ClientIds == {"idA", "idB"}
Secrets == {"", "s1", "s2"}
Markets == {"US", "MX"}

NoObj == [cls |-> "none"]

\* ------------------------------------------------------------------ registry

\* A plain BaseSpotifyAPI object: object.__new__(cls) with no __init__ of its own.
PlainBase == [cls |-> "BaseSpotifyAPI"]

\* The fields SpotifyAPI.__init__ assigns.
NewClient(client_id, client_secret, market) ==
    [cls |-> "SpotifyAPI",
     client_id |-> client_id,
     client_secret |-> client_secret,
     market |-> market,
     token |-> "",
     user_token |-> "",
     user_refresh_token |-> "",
     user_access_code |-> "",
     expires |-> now,
     user_expires |-> now,
     prefer_user_token |-> FALSE,
     cache |-> <<>>]

\* The first unused object id (0 when the heap is full).
FreshId ==
    IF \E o \in ObjIds : heap[o] = NoObj /\ \A p \in ObjIds : p >= o => heap[p] = NoObj
    THEN CHOOSE o \in ObjIds :
             /\ heap[o] = NoObj
             /\ \A p \in ObjIds : p >= o => heap[p] = NoObj
             /\ \A q \in ObjIds : q < o => ~(\A p \in ObjIds : p >= q => heap[p] = NoObj)
    ELSE 0

\* A mutant of Lookup: the registry is never consulted.
Lookup_never(client_id) == 0

\* cls._instances[args[0]]: the registered object, 0 for KeyError.
Lookup(client_id) == instances[client_id]

\* A mutant of Construct: __init__ does not return at once for a registered
\* client id and assigns the fields of the registered object anew.
Construct_again(client_id, client_secret, market) ==
    LET found == Lookup(client_id)
        fresh == IF found # 0 THEN found ELSE FreshId
        invalid == client_id = "" \/ client_secret = ""
    IN  /\ Len(made) < MaxMade
        /\ fresh # 0
        /\ IF invalid
           THEN /\ made' = Append(made, [cls |-> "SpotifyAPI", client_id |-> client_id,
                                         client_secret |-> client_secret, obj |-> 0,
                                         exc |-> "ValueError"])
                /\ UNCHANGED <<heap, instances, refs>>
           ELSE /\ heap' = [heap EXCEPT ![fresh] = NewClient(client_id, client_secret, market)]
                /\ instances' = [instances EXCEPT ![client_id] = fresh]
                /\ refs' = refs \cup {fresh}
                /\ made' = Append(made, [cls |-> "SpotifyAPI", client_id |-> client_id,
                                         client_secret |-> client_secret, obj |-> fresh,
                                         exc |-> "none"])
        /\ UNCHANGED <<now, pc, pending, remote, objs, last>>

\* SpotifyAPI(client_id, client_secret, market=market): __new__ then __init__.
Construct(client_id, client_secret, market) ==
    LET found == Lookup(client_id)
        fresh == FreshId
        invalid == client_id = "" \/ client_secret = ""
    IN  /\ Len(made) < MaxMade
        /\ found # 0 \/ fresh # 0
        /\ IF found # 0
           THEN \* __new__ returns the registered object; __init__ returns at once
                /\ refs' = refs \cup {found}
                /\ made' = Append(made, [cls |-> "SpotifyAPI", client_id |-> client_id,
                                         client_secret |-> client_secret, obj |-> found,
                                         exc |-> "none"])
                /\ UNCHANGED <<heap, instances>>
           ELSE IF invalid
           THEN \* ValueError: the new object is dropped, nothing is registered
                /\ made' = Append(made, [cls |-> "SpotifyAPI", client_id |-> client_id,
                                         client_secret |-> client_secret, obj |-> 0,
                                         exc |-> "ValueError"])
                /\ UNCHANGED <<heap, instances, refs>>
           ELSE /\ heap' = [heap EXCEPT ![fresh] = NewClient(client_id, client_secret, market)]
                /\ instances' = [instances EXCEPT ![client_id] = fresh]
                /\ refs' = refs \cup {fresh}
                /\ made' = Append(made, [cls |-> "SpotifyAPI", client_id |-> client_id,
                                         client_secret |-> client_secret, obj |-> fresh,
                                         exc |-> "none"])
        /\ UNCHANGED <<now, pc, pending, remote, objs, last>>

\* BaseSpotifyAPI(client_id, client_secret): __new__, then the __init__ of the
\* returned object's class (SpotifyAPI.__init__ returns at once for a registered
\* id; a plain BaseSpotifyAPI has none).
ConstructBase(client_id, client_secret) ==
    LET found == Lookup(client_id)
        fresh == FreshId
    IN  /\ Len(made) < MaxMade
        /\ found # 0 \/ fresh # 0
        /\ IF found # 0
           THEN /\ refs' = refs \cup {found}
                /\ made' = Append(made, [cls |-> "BaseSpotifyAPI", client_id |-> client_id,
                                         client_secret |-> client_secret, obj |-> found,
                                         exc |-> "none"])
                /\ UNCHANGED <<heap, instances>>
           ELSE /\ heap' = [heap EXCEPT ![fresh] = PlainBase]
                /\ refs' = refs \cup {fresh}
                /\ made' = Append(made, [cls |-> "BaseSpotifyAPI", client_id |-> client_id,
                                         client_secret |-> client_secret, obj |-> fresh,
                                         exc |-> "none"])
                /\ UNCHANGED instances
        /\ UNCHANGED <<now, pc, pending, remote, objs, last>>

\* The program drops its reference to an object.
Release(o) ==
    /\ o \in refs
    /\ refs' = refs \ {o}
    /\ UNCHANGED <<now, heap, instances, made, pc, pending, remote, objs, last>>

\* An unreferenced object is reclaimed; its WeakValueDictionary entry goes with it.
Collect(o) ==
    /\ o \notin refs
    /\ heap[o] # NoObj
    /\ heap' = [heap EXCEPT ![o] = [cls |-> "dead"]]
    /\ instances' = [c \in ClientIds |-> IF instances[c] = o THEN 0 ELSE instances[c]]
    /\ UNCHANGED <<now, refs, made, pc, pending, remote, objs, last>>

\* ------------------------------------------------------------------ calls

MaxClock == 3

Nonces == {"n1", "n2"}
ExpiresIns == {1, 2}

PlaylistSeq == <<"p1", "p2">>
PlaylistIds == {PlaylistSeq[i] : i \in 1..Len(PlaylistSeq)}
NoPlaylist == [exists |-> FALSE, tracks |-> <<>>]
NoPlaylistObj == [made |-> FALSE, loaded |-> FALSE, tracks |-> <<>>, client_id |-> ""]

NoPath == <<<<"none">>>>

NoOp == [name |-> "none"]
NoPending == [op |-> NoOp, orig |-> NoOp, self |-> 0, state |-> "", sent |-> <<>>,
              rec |-> <<>>]
NoPrev == [op |-> NoOp, ret |-> <<>>, pre_remote |-> <<>>]
\* Python's None, where a number is expected.
None == -1

NoLast == [op |-> NoOp, self |-> 0, exc |-> "none", sent |-> <<>>, ret |-> <<>>,
           pre |-> NoObj, pre_remote |-> <<>>, pre_objs |-> <<>>, path |-> NoPath,
           state |-> "", prev |-> NoPrev, response |-> None]

\* The methods decorated with _requires_user_auth.
UserAuthOps == {"get_me", "get_private_playlist", "add_to_playlist", "clear_playlist",
                "rearrange_playlist", "create_playlist", "duplicate_playlist"}

\* A running call: the client's fields, the exception in flight, the requests
\* sent so far, the provider's playlists, the value to return.
Ctx(self) == [c |-> heap[self], exc |-> "none", sent |-> <<>>, rem |-> remote,
              objs |-> objs, ret |-> <<>>, status |-> 200]

Ok(m) == m.exc = "none"

\* One statement after another: F at the value of v, v worked out once.
Let(v, F(_)) == CHOOSE r \in {F(x) : x \in {v}} : TRUE

\* The statements F that follow a call: they run on what the call left unless
\* the call raised, and then the exception goes on to the caller.
Then(v, F(_)) == CHOOSE r \in {IF Ok(x) THEN F(x) ELSE x : x \in {v}} : TRUE

Raise(m, e) == [m EXCEPT !.exc = e]

\* The number of API requests (not token grants) the call has sent.
ApiCount(m) == Cardinality({i \in 1..Len(m.sent) : m.sent[i].kind = "api"})

\* The provider takes a bearer token that was issued and has not run out.
TokenAccepted(tok, exp) == tok # "" /\ exp >= now

\* requests.get/post/put/delete with a bearer header: the request is recorded
\* with the token it carries; the provider answers 401 to a bad token, and an
\* error status to the request the environment picked (env.fail).
Status(m, bearer, refused, env) ==
    IF ~TokenAccepted(IF bearer = "user" THEN m.c.user_token ELSE m.c.token,
                      IF bearer = "user" THEN m.c.user_expires ELSE m.c.expires)
    THEN 401
    ELSE IF ApiCount(m) + 1 = env.fail THEN env.code
    ELSE IF refused THEN 400
    ELSE 200

Send(m, what, bearer, body, refused, env) ==
    Let(Status(m, bearer, refused, env), LAMBDA st :
        [m EXCEPT !.sent = Append(@, [kind |-> "api", what |-> what, bearer |-> bearer,
                                      token |-> IF bearer = "user" THEN m.c.user_token
                                                ELSE m.c.token,
                                      exp |-> IF bearer = "user" THEN m.c.user_expires
                                              ELSE m.c.expires,
                                      at |-> now, body |-> body, status |-> st,
                                      resp |-> <<>>]),
                  !.status = st])

\* result = r.json(): the body of the answer to the request just sent.
Answer(m, result) ==
    Let(m, LAMBDA r :
        IF ~Ok(r) THEN r
        ELSE IF r.status = 200 THEN [r EXCEPT !.sent[Len(r.sent)].resp = result]
        ELSE Raise(r, "JSONDecodeError"))

\* if r.status_code >= 400: raise SpotifyAPIException(r, ...)
RaiseForStatus(m) ==
    Let(m, LAMBDA r : IF r.status >= 400 THEN Raise(r, "SpotifyAPIException") ELSE r)

\* A token grant request to accounts.spotify.com/api/token.
Grant(m, grant_type, env) ==
    [m EXCEPT !.sent = Append(@, [kind |-> "grant", what |-> grant_type,
                                  bearer |-> "basic", token |-> "", exp |-> 0,
                                  at |-> now, body |-> <<>>,
                                  status |-> IF env.grant = "ok" THEN 200 ELSE 400,
                                  resp |-> <<>>]),
              !.status = IF env.grant = "ok" THEN 200 ELSE 400]

\* A mutant of update_token: the token and its expiry are assigned before the
\* status of the answer is looked at.
update_token_early(m, env) ==
    RaiseForStatus([Grant(m, "client_credentials", env) EXCEPT
                       !.c.token = "app_token",
                       !.c.expires = now + env.expires_in])

\* SpotifyAPI.update_token
update_token(m, env) ==
    Then(RaiseForStatus(Grant(m, "client_credentials", env)), LAMBDA m1 :
         [m1 EXCEPT !.c.token = "app_token",
                    !.c.expires = now + env.expires_in])

\* SpotifyAPI._request_user_token
request_user_token(m, env) ==
    Then(RaiseForStatus(Grant(m, "authorization_code", env)), LAMBDA m1 :
         [m1 EXCEPT !.c.user_token = "user_token",
                    !.c.user_refresh_token = "refresh_token",
                    !.c.user_expires = now + env.expires_in])

\* SpotifyAPI._refresh_user_token
refresh_user_token(m, env) ==
    Then(RaiseForStatus(Grant(m, "refresh_token", env)), LAMBDA m1 :
         [m1 EXCEPT !.c.user_token = "user_token",
                    !.c.user_expires = now + env.expires_in])

\* A mutant of update_user_token: the authorization code is exchanged again.
update_user_token_code(m, env) == request_user_token(m, env)

\* SpotifyAPI.update_user_token
update_user_token(m, env) ==
    IF m.c.user_refresh_token # ""
    THEN refresh_user_token(m, env)
    ELSE request_user_token(m, env)

\* SpotifyAPI._auth_headers: the token is renewed when the clock is past its
\* expiry; the header then carries self._token.
auth_headers(m, env) ==
    IF now > m.c.expires THEN update_token(m, env) ELSE m

\* SpotifyAPI._user_auth_headers
user_auth_headers(m, env) ==
    IF now > m.c.user_expires THEN update_user_token(m, env) ELSE m

\* headers=self._auth_headers() and the request that carries them.
AppRequest(m, what, body, refused, env) ==
    Then(auth_headers(m, env), LAMBDA m1 :
         RaiseForStatus(Send(m1, what, "app", body, refused, env)))

\* headers=self._user_auth_headers() and the request that carries them.
UserRequest(m, what, body, refused, env) ==
    Then(user_auth_headers(m, env), LAMBDA m1 :
         RaiseForStatus(Send(m1, what, "user", body, refused, env)))

\* ------------------------------------------------------------------ handshake

DictSet(d, k, v) == [x \in (DOMAIN d) \cup {k} |-> IF x = k THEN v ELSE d[x]]

\* utils.parse_url_params on a query string given as its '&'-separated pairs,
\* each pair as its '='-separated parts: a pair that does not split in two is
\* skipped, a later pair overwrites an earlier one.
RECURSIVE parse_pairs(_, _)
parse_pairs(pairs, resp) ==
    IF pairs = <<>> THEN resp
    ELSE Let(IF Len(Head(pairs)) = 2
             THEN DictSet(resp, Head(pairs)[1], Head(pairs)[2]) ELSE resp,
             LAMBDA resp1 : parse_pairs(Tail(pairs), resp1))

parse_url_params(path) == parse_pairs(path, <<>>)

\* A mutant of StateDiffers: the state parameter is not compared.
StateDiffers_unchecked(state, params) == FALSE

\* if state != params['state']
StateDiffers(state, params) == state # params["state"]

\* SpotifyAPI._prompt_user_auth from the moment server.handle_request() returns:
\* the state check, then the code or the error of the redirect.
\* A mutant of prompt_user_auth_done: a redirect without a code is taken as one
\* with an empty code.
prompt_user_auth_done_lenient(m, state, path) ==
    Let(parse_url_params(path), LAMBDA params :
        IF "state" \notin DOMAIN params THEN Raise(m, "KeyError")
        ELSE IF StateDiffers(state, params) THEN Raise(m, "SpotifyUserAuthException")
        ELSE IF "code" \in DOMAIN params
             THEN [m EXCEPT !.c.user_access_code = params["code"]]
        ELSE m)

prompt_user_auth_done(m, state, path) ==
    Let(parse_url_params(path), LAMBDA params :
        IF "state" \notin DOMAIN params THEN Raise(m, "KeyError")
        ELSE IF StateDiffers(state, params) THEN Raise(m, "SpotifyUserAuthException")
        ELSE IF "code" \in DOMAIN params
             THEN [m EXCEPT !.c.user_access_code = params["code"]]
        ELSE IF "error" \notin DOMAIN params THEN Raise(m, "KeyError")
        ELSE IF params["error"] = "access_denied"
             THEN Raise(m, "SpotifyUserAuthException")
        ELSE [Raise(m, "SpotifyAPIException") EXCEPT !.status = None])

\* The requests that can reach the listener: any of state, code and error may be
\* absent, and a pair may be malformed.
StateParts == {<<>>} \cup {<<<<"state", n>>>> : n \in Nonces}
CodeParts == {<<>>, <<<<"code", "c1">>>>, <<<<"code", "c1", "x">>>>}
ErrorParts == {<<>>, <<<<"error", "access_denied">>>>, <<<<"error", "server_error">>>>}
Paths == {c \o e \o s : c \in CodeParts, e \in ErrorParts, s \in StateParts}

\* ------------------------------------------------------------------ provider

BatchSize == 100

Min(a, b) == IF a < b THEN a ELSE b
Max(a, b) == IF a > b THEN a ELSE b

\* The Python slice list[a:b] for a, b >= 0.
PySlice(list, a, b) == SubSeq(list, Min(a, Len(list)) + 1, Min(b, Len(list)))

\* Track.uri and the track a URI names.
Uri(t) == <<"spotify", "track", t>>
TrackOfUri(u) == u[3]

\* POST /playlists/{id}/tracks: the tracks of uris go in at position.
ProviderAdd(list, uris, position) ==
    PySlice(list, 0, position)
        \o [i \in 1..Len(uris) |-> TrackOfUri(uris[i])]
        \o PySlice(list, position, Len(list))

\* DELETE /playlists/{id}/tracks: every occurrence of a listed URI goes.
ProviderRemove(list, uris) ==
    Let({TrackOfUri(uris[i].uri) : i \in 1..Len(uris)}, LAMBDA gone :
        SelectSeq(list, LAMBDA t : t \notin gone))

\* PUT /playlists/{id}/tracks: the range goes before the item that is at
\* insert_before in the list as it stands.
ProviderReorder(list, range_start, range_length, insert_before) ==
    LET sel == PySlice(list, range_start, range_start + range_length)
    IN  IF insert_before <= range_start
        THEN PySlice(list, 0, insert_before) \o sel
                 \o PySlice(list, insert_before, range_start)
                 \o PySlice(list, range_start + range_length, Len(list))
        ELSE IF insert_before >= range_start + range_length
        THEN PySlice(list, 0, range_start)
                 \o PySlice(list, range_start + range_length, insert_before) \o sel
                 \o PySlice(list, insert_before, Len(list))
        ELSE list

\* One page of a track list: the items from offset on, and the offset of the
\* next page (None on the last page).
Page(list, offset, size) ==
    [items |-> [i \in 1..(Min(offset + size, Len(list)) - offset) |->
                    [track |-> [id |-> list[offset + i]]]],
     next |-> IF offset + size < Len(list) THEN offset + size ELSE None]

\* One page of an album's tracks: the items are the tracks themselves.
AlbumPage(list, offset, size) ==
    [items |-> [i \in 1..(Min(offset + size, Len(list)) - offset) |->
                    [id |-> list[offset + i]]],
     next |-> IF offset + size < Len(list) THEN offset + size ELSE None]

\* The albums of the provider and their tracks; an album does not change.
AlbumIds == {"a1", "a2"}
AlbumTracks(album) ==
    IF album = "a2" THEN <<21, 22, 23, 24, 25>> ELSE <<11, 12, 13, 14, 15>>

\* track['artists'][0]['id']: the albums are by the artist r1; track 24 of
\* the album a2 lists the artist r2 first.
first_artist(t) == IF t = 24 THEN "r2" ELSE "r1"

\* The provider has an id left for a new playlist, and the id it gives it.
HasFree(rem) == \E p \in PlaylistIds : ~rem[p].exists
FreePlaylist(rem) ==
    PlaylistSeq[CHOOSE i \in 1..Len(PlaylistSeq) :
                    /\ ~rem[PlaylistSeq[i]].exists
                    /\ \A j \in 1..(i - 1) : rem[PlaylistSeq[j]].exists]

\* ------------------------------------------------------------------ retrieval

\* A mutant of parse_result: the tracks of the earlier pages are dropped.
parse_result_page(items, track_list) ==
    [i \in 1..Len(items) |->
        IF "track" \in DOMAIN items[i] THEN items[i].track.id ELSE items[i].id]

\* SpotifyAPI._parse_result: an item is the track or wraps it under 'track'.
parse_result(items, track_list) ==
    track_list \o [i \in 1..Len(items) |->
                      IF "track" \in DOMAIN items[i] THEN items[i].track.id
                      ELSE items[i].id]

\* headers = self._user_auth_headers() if self._prefer_user_token else self._auth_headers()
PlaylistRequest(m, what, body, refused, env) ==
    IF m.c.prefer_user_token
    THEN UserRequest(m, what, body, refused, env)
    ELSE AppRequest(m, what, body, refused, env)

\* The loop of get_playlist over _get_playlist_slice: one request per next URL.
RECURSIVE playlist_slices(_, _, _, _, _)
playlist_slices(m, pl, next, playlist, env) ==
    IF next = None THEN [m EXCEPT !.ret = playlist]
    ELSE Let(Page(m.rem[pl].tracks, next, env.page), LAMBDA page :
         Then(Answer(PlaylistRequest(m, "GET slice", [pl |-> pl, offset |-> next],
                                     FALSE, env), page), LAMBDA m1 :
         Let(parse_result(page.items, playlist), LAMBDA playlist1 :
             playlist_slices(m1, pl, page.next, playlist1, env))))

\* SpotifyAPI.get_playlist: the first page comes with the playlist, the others
\* through the next URLs; the return value is the Playlist with all the tracks.
get_playlist(m, pl, env) ==
    Let(Page(m.rem[pl].tracks, 0, env.page), LAMBDA page :
    Then(Answer(PlaylistRequest(m, "GET playlist", [pl |-> pl], ~m.rem[pl].exists,
                                env), page), LAMBDA m1 :
    Let(parse_result(page.items, <<>>), LAMBDA playlist :
    Then(playlist_slices(m1, pl, page.next, playlist, env), LAMBDA m2 :
         [m2 EXCEPT !.ret = [id |-> pl, loaded |-> TRUE, tracks |-> m2.ret]]))))

\* SpotifyAPI.get_private_playlist (inside its decorator)
get_private_playlist(m, pl, env) ==
    Then(get_playlist([m EXCEPT !.c.prefer_user_token = TRUE], pl, env), LAMBDA m1 :
         [m1 EXCEPT !.c.prefer_user_token = FALSE])

\* functools.lru_cache(maxsize=10) around a method: the entries whose key
\* holds this client, the least recently used first.
CacheSize == 10

\* A key is the method, the form of its argument (a URL, a bare id or an
\* object) and the id.  An object hashes as its id does, so a bare id and an
\* object with that id meet in the cache, and their comparison, which
\* __eq__ of the object makes by reading other.id, raises AttributeError.
CacheClash(m, key) ==
    \E i \in 1..Len(m.c.cache) :
        /\ m.c.cache[i].key[1] = key[1]
        /\ m.c.cache[i].key[3] = key[3]
        /\ {m.c.cache[i].key[2], key[2]} = {"id", "obj"}

CacheHit(m, key) ==
    \E i \in 1..Len(m.c.cache) : m.c.cache[i].key[1] = key[1] /\ m.c.cache[i].key = key

\* A hit returns the stored value and makes the entry the most recent one.
CacheGet(m, key) ==
    Let(CHOOSE j \in 1..Len(m.c.cache) :
            m.c.cache[j].key[1] = key[1] /\ m.c.cache[j].key = key, LAMBDA i :
        [m EXCEPT !.c.cache = Append(SelectSeq(@, LAMBDA e : e.key[1] # key[1]
                                                             \/ e.key # key), @[i]),
                  !.ret = m.c.cache[i].value])

\* A miss that returned stores the value; the oldest entry goes when full.
CachePut(m, key) ==
    [m EXCEPT !.c.cache = Append(IF Len(@) >= CacheSize THEN Tail(@) ELSE @,
                                 [key |-> key, value |-> m.ret])]

\* SpotifyAPI.get_track
get_track(m, t, form, env) ==
    IF CacheClash(m, <<"get_track", form, t>>) THEN Raise(m, "AttributeError")
    ELSE IF CacheHit(m, <<"get_track", form, t>>)
    THEN CacheGet(m, <<"get_track", form, t>>)
    ELSE Then(Answer(AppRequest(m, "GET track", [id |-> t], FALSE, env), [id |-> t]),
              LAMBDA m1 :
         Let([m1 EXCEPT !.ret = parse_result(<<[id |-> t]>>, <<>>)[1]], LAMBDA m2 :
             CachePut(m2, <<"get_track", form, t>>)))

\* The loop of get_album over _get_album_slice: one request per next URL.
RECURSIVE album_slices(_, _, _, _, _)
album_slices(m, al, next, album, env) ==
    IF next = None THEN [m EXCEPT !.ret = album]
    ELSE Let(AlbumPage(AlbumTracks(al), next, env.page), LAMBDA page :
         Then(Answer(AppRequest(m, "GET slice", [al |-> al, offset |-> next],
                                FALSE, env), page), LAMBDA m1 :
         Let(parse_result(page.items, album), LAMBDA album1 :
             album_slices(m1, al, page.next, album1, env))))

\* SpotifyAPI.get_album.  same_artist is worked out from the items of the first
\* answer and handed to _parse_result for every page: a track gets the artist
\* of the album itself (shared), or an Artist of its own with the id of its
\* first artist.
get_album(m, al, form, env) ==
    IF CacheClash(m, <<"get_album", form, al>>) THEN Raise(m, "AttributeError")
    ELSE IF CacheHit(m, <<"get_album", form, al>>)
    THEN CacheGet(m, <<"get_album", form, al>>)
    ELSE Let(AlbumPage(AlbumTracks(al), 0, env.page), LAMBDA page :
         Then(Answer(AppRequest(m, "GET album", [al |-> al], al \notin AlbumIds,
                                env), page), LAMBDA m1 :
         Let(parse_result(page.items, <<>>), LAMBDA album :
         Then(album_slices(m1, al, page.next, album, env), LAMBDA m2 :
         Let(\A i \in 1..Len(page.items) : first_artist(page.items[i].id) = "r1",
             LAMBDA same_artist :
         Let([m2 EXCEPT !.ret =
                  [id |-> al, loaded |-> TRUE, tracks |-> m2.ret, artist |-> "r1",
                   artists |-> [i \in 1..Len(m2.ret) |->
                                   IF same_artist THEN [id |-> "r1", shared |-> TRUE]
                                   ELSE [id |-> first_artist(m2.ret[i]),
                                         shared |-> FALSE]]]],
             LAMBDA m3 : CachePut(m3, <<"get_album", form, al>>)))))))

\* SpotifyAPI.get_me (inside its decorator)
get_me(m, env) ==
    Then(Answer(UserRequest(m, "GET me", <<>>, FALSE, env), [id |-> "me"]), LAMBDA m1 :
         [m1 EXCEPT !.ret = [id |-> "me"]])

\* ------------------------------------------------------------------ objects

\* Track, Playlist, Album, Artist and User as their constructors leave them:
\* nothing fetched yet.  Playlist, Album and Artist set self.type; Track and User
\* have no such attribute.  "None" is Python's None where a string is expected.
Object(cls, id, client_id) ==
    [cls |-> cls,
     kind |-> CASE cls = "Playlist" -> "playlist"
                [] cls = "Album" -> "album"
                [] cls = "Artist" -> "artist"
                [] OTHER -> "missing",
     id |-> id, client_id |-> client_id, loaded |-> FALSE, tracks |-> <<>>,
     image_url |-> "None", album |-> "None"]

\* The share link https://open.spotify.com/<kind>/<id>.
Url(kind, id) == [Object("str", id, "") EXCEPT !.kind = kind]

\* utils.get_id: the id that an object has, or that a share link ends in,
\* without the query string of the link (url.split('/')[-1].split('?')[0]).
get_id(x) ==
    IF x.cls = "str" /\ x.kind # "missing"
          /\ \E i \in {"p1", "t1", "a1", "r1", "u1", "u2"} : x.id = i \o "?si=q"
    THEN CHOOSE i \in {"p1", "t1", "a1", "r1", "u1", "u2"} : x.id = i \o "?si=q"
    ELSE x.id

\* A mutant of url: every link is written as the link of a track.
url_track(x) == Url("track", x.id)

\* The url property of Track, TrackCollection and User.
url(x) ==
    Url(IF x.cls = "Track" THEN "track" ELSE IF x.cls = "User" THEN "user" ELSE x.kind,
        x.id)

\* SpotifyAPI._get_image_url of what the provider answers: the first image, or
\* None when there is none.  An empty playlist has none, nor have the artist r1
\* and the user u1.
get_image_url(kind, id, rem) ==
    CASE kind = "playlist" -> IF rem[id].tracks = <<>> THEN "None" ELSE "img"
      [] kind \in {"artist", "user"} -> IF id \in {"r1", "u1"} THEN "None" ELSE "img"
      [] OTHER -> "img"

\* SpotifyAPI.get_artist
get_artist(m, artist, form, env) ==
    IF CacheClash(m, <<"get_artist", form, artist>>) THEN Raise(m, "AttributeError")
    ELSE IF CacheHit(m, <<"get_artist", form, artist>>)
    THEN CacheGet(m, <<"get_artist", form, artist>>)
    ELSE Then(Answer(AppRequest(m, "GET artist", [id |-> artist], artist # "r1", env),
                     [id |-> artist]), LAMBDA m1 :
         Let(<<[id |-> 2], [id |-> 1]>>, LAMBDA tracks :
         Then(Answer(AppRequest(m1, "GET top-tracks", [id |-> artist], FALSE, env),
                     [tracks |-> tracks]), LAMBDA m2 :
         Let([m2 EXCEPT !.ret = [Object("Artist", artist, m.c.client_id) EXCEPT
                                     !.loaded = TRUE,
                                     !.tracks = parse_result(tracks, <<>>),
                                     !.image_url = get_image_url("artist", artist,
                                                                 m.rem)]],
             LAMBDA m3 : CachePut(m3, <<"get_artist", form, artist>>)))))

\* SpotifyAPI.get_user
get_user(m, user, env) ==
    Then(Answer(AppRequest(m, "GET user", [id |-> user], user \notin {"u1", "u2"}, env),
                [id |-> user]),
         LAMBDA m1 :
         [m1 EXCEPT !.ret = [Object("User", user, m.c.client_id) EXCEPT
                                 !.image_url = get_image_url("user", user, m.rem)]])

\* SpotifyAPI.get_album_from_track of a Track: the album it has, or the album
\* that the provider names for the track, fetched by its id.
get_album_from_track(m, x, env) ==
    IF x.album # "None" THEN [m EXCEPT !.ret = [id |-> x.album]]
    ELSE Then(Answer(AppRequest(m, "GET track", [id |-> get_id(x)], FALSE, env),
                     [album |-> "a1"]), LAMBDA m1 :
              get_album(m1, m1.sent[Len(m1.sent)].resp.album, "id", env))

\* A mutant of isalnum: any string passes for an id.
isalnum_any(id) == TRUE

\* str.isalnum() in utils.id_from_url, asked of a string that is no share link.
isalnum(id) == id \notin {"", "non_alnum_fake_id", "a-1", "a1?si=q"}

\* SpotifyAPI.get: a share link goes by the kind in it, any other string by
\* result_type ("None" when the caller gives none), anything else by its type
\* attribute; the getter of the kind is called with the argument as it came,
\* and starts with utils.get_id, which turns down a string that is neither a
\* share link nor alphanumeric.
get(m, x, result_type, env) ==
    IF x.cls # "str" /\ x.kind = "missing" THEN Raise(m, "AttributeError")
    ELSE Let(IF x.cls # "str" THEN "obj" ELSE IF x.kind = "missing" THEN "id"
             ELSE IF get_id(x) # x.id THEN "url?" ELSE "url", LAMBDA form :
         Let(IF form = "id" THEN result_type ELSE x.kind, LAMBDA kind :
         Let(get_id(x), LAMBDA id :
         IF /\ kind \in {"playlist", "track", "artist", "album", "user"}
            /\ form = "id"
            /\ ~isalnum(x.id)
         THEN Raise(m, "ValueError")
         ELSE
         CASE kind = "playlist" ->
                  Then(get_playlist(m, id, env), LAMBDA m1 :
                       [m1 EXCEPT !.ret = [Object("Playlist", id, m.c.client_id) EXCEPT
                                              !.loaded = TRUE, !.tracks = m1.ret.tracks,
                                              !.image_url = get_image_url("playlist",
                                                                          id, m.rem)]])
           [] kind = "track" ->
                  Then(get_track(m, IF id = "t2" THEN 2 ELSE 1, form, env), LAMBDA m1 :
                       [m1 EXCEPT !.ret = [Object("Track", id, m.c.client_id) EXCEPT
                                              !.album = "a1"]])
           [] kind = "artist" -> get_artist(m, id, form, env)
           [] kind = "album" ->
                  Then(get_album(m, id, form, env), LAMBDA m1 :
                       [m1 EXCEPT !.ret = [Object("Album", id, m.c.client_id) EXCEPT
                                              !.loaded = TRUE, !.tracks = m1.ret.tracks,
                                              !.image_url = get_image_url("album", id,
                                                                          m.rem)]])
           [] kind = "user" -> get_user(m, id, env)
           [] OTHER -> Raise(m, "ValueError"))))

\* Track.album: fetched through the client when the track has none.  A method
\* of an object returns the object as the method leaves it; the value that the
\* caller gets is the attribute of that object.
Track_album(m, x, env) ==
    IF x.album = "None" /\ x.client_id # ""
    THEN Then(get_album_from_track(m, x, env), LAMBDA m1 :
              [m1 EXCEPT !.ret = [x EXCEPT !.album = m1.ret.id]])
    ELSE [m EXCEPT !.ret = x]

\* TrackCollection._get_tracks, behind tracks, top_tracks, update_tracks and
\* update_top_tracks.
TrackCollection_get_tracks(m, x, force_update, env) ==
    IF force_update \/ (x.client_id # "" /\ ~x.loaded)
    THEN Then(get(m, x, "None", env), LAMBDA m1 :
              [m1 EXCEPT !.ret = [x EXCEPT !.loaded = TRUE, !.tracks = m1.ret.tracks]])
    ELSE [m EXCEPT !.ret = x]

\* TrackCollection.image_url
TrackCollection_image_url(m, x, env) ==
    IF x.image_url = "None"
    THEN Then(get(m, x, "None", env), LAMBDA m1 :
              [m1 EXCEPT !.ret = [x EXCEPT !.image_url = m1.ret.image_url]])
    ELSE [m EXCEPT !.ret = x]

\* User.image_url
User_image_url(m, x, env) ==
    IF x.client_id # "" /\ x.image_url \in {"None", ""}
    THEN Then(get_user(m, x.id, env), LAMBDA m1 :
              [m1 EXCEPT !.ret = [x EXCEPT !.image_url = m1.ret.image_url]])
    ELSE [m EXCEPT !.ret = x]

\* ResultType: the kinds _search turns down, and the four it asks for when the
\* caller names none.
Unsupported_none == {}
Unsupported == {"user", "show", "episode", "audiobook"}
DefaultTypes == <<"album", "artist", "playlist", "track">>

\* GET /search: what the provider finds for a query, by kind, most relevant
\* first.  It knows no kind "user".
SearchHits(query, kind) ==
    IF query = "nothing" THEN <<>>
    ELSE CASE kind = "album" -> <<"a1">>
           [] kind = "artist" -> <<"r2", "r1">>
           [] kind = "playlist" -> <<"p2", "p1", "p3">>
           [] kind = "track" -> <<3, 1, 2, 4>>
           [] OTHER -> <<>>

\* iterate_results() of _search and the loop over it: one object per item, of
\* the class of the kind.
iterate_results(result, kind, feeling_lucky) ==
    LET ClassOf == CASE kind = "album" -> "Album"
                     [] kind = "artist" -> "Artist"
                     [] kind = "playlist" -> "Playlist"
                     [] OTHER -> "Track"
    IN  Let(IF feeling_lucky THEN PySlice(result[kind].items, 0, 1)
            ELSE result[kind].items,
            LAMBDA items : [i \in 1..Len(items) |-> [cls |-> ClassOf, id |-> items[i]]])

\* SearchResult(query, **kwargs): __init__ has the four lists as parameters
\* without default values.
SearchResult(m, query, kwargs) ==
    IF DOMAIN kwargs = {"album", "artist", "playlist", "track"}
    THEN [m EXCEPT !.ret = [cls |-> "SearchResult", query |-> query,
                            albums |-> kwargs["album"], artists |-> kwargs["artist"],
                            playlists |-> kwargs["playlist"], tracks |-> kwargs["track"]]]
    ELSE Raise(m, "TypeError")

\* SearchResult.__len__
SearchResult_len(r) == Len(r.albums) + Len(r.artists) + Len(r.playlists) + Len(r.tracks)

\* SpotifyAPI._search
search_(m, query0, result_types0, feeling_lucky, env) ==
    Let(IF query0 = "" THEN "Never Gonna Give You Up" ELSE query0, LAMBDA query :
        IF result_types0 # <<>>
           /\ \E i \in 1..Len(result_types0) : result_types0[i] \in Unsupported
        THEN Raise(m, "NotImplementedError")
        ELSE Let(IF result_types0 # <<>> THEN result_types0 ELSE DefaultTypes,
                 LAMBDA result_types :
             Let([t \in {result_types[i] : i \in 1..Len(result_types)} |->
                     [items |-> SearchHits(query, t)]], LAMBDA result :
             Then(Answer(AppRequest(m, "GET search", [q |-> query, type |-> result_types],
                                    "user" \in DOMAIN result, env), result), LAMBDA m1 :
             Let([t \in DOMAIN result \cap {"album", "artist", "playlist", "track"} |->
                     iterate_results(result, t, feeling_lucky)], LAMBDA kwargs :
                 IF feeling_lucky
                 THEN [m1 EXCEPT !.ret = IF kwargs[result_types[1]] # <<>>
                                         THEN kwargs[result_types[1]][1]
                                         ELSE [cls |-> "NoneType"]]
                 ELSE SearchResult(m1, query, kwargs))))))

\* ------------------------------------------------------------------ mutation

\* add_slice() of add_to_playlist: one POST with the URIs gathered so far.
add_slice(m, pl, uris, last_pos, env) ==
    Then(UserRequest(m, "POST tracks", [uris |-> uris, position |-> last_pos],
                     ~m.rem[pl].exists \/ last_pos > Len(m.rem[pl].tracks), env),
         LAMBDA m1 : IF m1.status # 200 THEN m1
                     ELSE [m1 EXCEPT !.rem[pl].tracks = ProviderAdd(@, uris, last_pos)])

\* A mutant of NextPos: the position of the call is never advanced.
NextPos_stay(position, i) == position

\* last_pos = i, after the batch that ends with track i.
NextPos(position, i) == i

\* A mutant of Gathered: the list of URIs is never emptied between requests.
Gathered_all(tracks, i) == [j \in 1..i |-> tracks[j]]

\* The URIs that have gathered when the loop of add_to_playlist or of
\* clear_playlist is at track i: those of the tracks after the last i that was
\* a multiple of 100.
Gathered(tracks, i) ==
    [j \in 1..(i - ((i - 1) \div BatchSize) * BatchSize) |->
        tracks[((i - 1) \div BatchSize) * BatchSize + j]]

\* The loop of add_to_playlist over enumerate(tracks, 1), from one request to
\* the next: i is the next track at which i % 100 == 0, or the loop is over
\* and what has gathered since, if anything, goes out.
RECURSIVE add_loop(_, _, _, _, _, _, _)
add_loop(m, pl, tracks, position, i, last_pos, env) ==
    IF i > Len(tracks)
    THEN IF Len(tracks) % BatchSize # 0
         THEN Let(Gathered(tracks, Len(tracks)), LAMBDA rest :
              Let([j \in 1..Len(rest) |-> Uri(rest[j])], LAMBDA uris :
                  add_slice(m, pl, uris, last_pos, env)))
         ELSE m
    ELSE Let(Gathered(tracks, i), LAMBDA batch :
         Let([j \in 1..Len(batch) |-> Uri(batch[j])], LAMBDA uris :
         Then(add_slice(m, pl, uris, last_pos, env), LAMBDA m1 :
         Let(NextPos(position, i), LAMBDA last_pos1 :
             add_loop(m1, pl, tracks, position, i + BatchSize, last_pos1, env)))))

\* SpotifyAPI.add_to_playlist (inside its decorator)
add_to_playlist(m, pl, tracks, position, env) ==
    add_loop(m, pl, tracks, position, BatchSize, position, env)

\* clear_slice() of clear_playlist: one DELETE with the URIs gathered so far.
clear_slice(m, pl, uris, env) ==
    Then(UserRequest(m, "DELETE tracks", [tracks |-> uris], ~m.rem[pl].exists, env),
         LAMBDA m1 : IF m1.status # 200 THEN m1
                     ELSE [m1 EXCEPT !.rem[pl].tracks = ProviderRemove(@, uris)])

\* The loop of clear_playlist over enumerate(tracks, 1), from one request to
\* the next, as in add_to_playlist.
RECURSIVE clear_loop(_, _, _, _, _)
clear_loop(m, pl, tracks, i, env) ==
    IF i > Len(tracks)
    THEN IF Len(tracks) % BatchSize # 0
         THEN Let(Gathered(tracks, Len(tracks)), LAMBDA rest :
              Let([j \in 1..Len(rest) |-> [uri |-> Uri(rest[j])]], LAMBDA uris :
                  clear_slice(m, pl, uris, env)))
         ELSE m
    ELSE Let(Gathered(tracks, i), LAMBDA batch :
         Let([j \in 1..Len(batch) |-> [uri |-> Uri(batch[j])]], LAMBDA uris :
         Then(clear_slice(m, pl, uris, env), LAMBDA m1 :
              clear_loop(m1, pl, tracks, i + BatchSize, env))))

\* SpotifyAPI.create_playlist (inside its decorator): the user id comes from
\* get_me, the new playlist is empty and its object has no tracks loaded.
create_playlist(m, env) ==
    Then(get_me(m, env), LAMBDA m1 :
    Then(Answer(UserRequest(m1, "POST playlist", <<>>, ~HasFree(m1.rem), env),
                [id |-> FreePlaylist(m1.rem)]), LAMBDA m2 :
    Let(FreePlaylist(m2.rem), LAMBDA new :
        [m2 EXCEPT !.rem[new] = [exists |-> TRUE, tracks |-> <<>>],
                   !.ret = [id |-> new, loaded |-> FALSE, tracks |-> <<>>]])))

\* SpotifyAPI.duplicate_playlist (inside its decorator)
duplicate_playlist(m, pl, env) ==
    Then(get_private_playlist(m, pl, env), LAMBDA m1 :
    Then(create_playlist(m1, env), LAMBDA m2 :
    Then(add_to_playlist(m2, m2.ret.id, m1.ret.tracks, 0, env), LAMBDA m3 :
         [m3 EXCEPT !.ret = m2.ret])))

\* SpotifyAPI.clear_playlist (inside its decorator): the playlist is read with
\* the user token, then its tracks are deleted batch by batch; the return value
\* is the playlist as it was read.
clear_playlist(m, pl, make_copy, env) ==
    Then(IF make_copy THEN duplicate_playlist(m, pl, env) ELSE m, LAMBDA m0 :
    Then(get_private_playlist(m0, pl, env), LAMBDA m1 :
    Then(clear_loop(m1, pl, m1.ret.tracks, BatchSize, env), LAMBDA m2 :
         [m2 EXCEPT !.ret = m1.ret])))

\* SpotifyAPI.rearrange_playlist (inside its decorator)
rearrange_playlist(m, pl, range_start, range_length, insert_before, env) ==
    Then(UserRequest(m, "PUT tracks",
                     [range_start |-> range_start, insert_before |-> insert_before,
                      range_length |-> range_length],
                     \/ ~m.rem[pl].exists
                     \/ range_start >= Len(m.rem[pl].tracks)
                     \/ insert_before > Len(m.rem[pl].tracks), env),
         LAMBDA m1 : IF m1.status # 200 THEN m1
                     ELSE [m1 EXCEPT !.rem[pl].tracks =
                              ProviderReorder(@, range_start, range_length,
                                              insert_before)])

\* ------------------------------------------------------------------ Playlist

\* TrackCollection._get_tracks of a Playlist: the tracks are fetched through
\* spoti.get(self) when forced or not loaded yet, and kept in the object.
get_tracks(m, pl, force_update, env) ==
    IF force_update \/ (m.objs[pl].client_id # "" /\ ~m.objs[pl].loaded)
    THEN Then(get_playlist(m, pl, env), LAMBDA m1 :
              [m1 EXCEPT !.objs[pl].loaded = TRUE,
                         !.objs[pl].tracks = m1.ret.tracks,
                         !.ret = m1.ret.tracks])
    ELSE [m EXCEPT !.ret = m.objs[pl].tracks]

\* The update of self._tracks at the end of Playlist.add.
AddLocal(obj, tracks, position) ==
    IF ~obj.loaded
    THEN [obj EXCEPT !.loaded = TRUE, !.tracks = tracks]
    ELSE [obj EXCEPT !.tracks = PySlice(obj.tracks, 0, position) \o tracks
                                    \o PySlice(obj.tracks, position, Len(obj.tracks))]

\* A mutant of Playlist_add: the in-memory list is updated whether or not the
\* request went through.
Playlist_add_eager(m, pl, tracks, position, env) ==
    Let(add_to_playlist(m, pl, tracks, position, env), LAMBDA m1 :
        [m1 EXCEPT !.objs[pl] = AddLocal(@, tracks, position), !.ret = <<>>])

\* Playlist.add
Playlist_add(m, pl, tracks, position, env) ==
    Then(add_to_playlist(m, pl, tracks, position, env), LAMBDA m1 :
         [m1 EXCEPT !.objs[pl] = AddLocal(@, tracks, position), !.ret = <<>>])

\* Playlist.clear
Playlist_clear(m, pl, make_copy, env) ==
    Then(clear_playlist(m, pl, make_copy, env), LAMBDA m1 :
         IF m1.objs[pl].loaded /\ m1.objs[pl].tracks # <<>>
         THEN [m1 EXCEPT !.objs[pl].tracks = <<>>]
         ELSE m1)

\* The update of self._tracks at the end of Playlist.rearrange: the slice is
\* cut out, then put in at insert_before of what is left.
RearrangeLocal(list, range_start, range_length, insert_before) ==
    LET slice == PySlice(list, range_start, range_start + range_length)
        rest == PySlice(list, 0, range_start)
                    \o PySlice(list, range_start + range_length, Len(list))
    IN  PySlice(rest, 0, insert_before) \o slice
            \o PySlice(rest, insert_before, Len(rest))

\* Playlist.rearrange
Playlist_rearrange(m, pl, range_start, range_length, insert_before, env) ==
    Then(rearrange_playlist(m, pl, range_start, range_length, insert_before, env),
         LAMBDA m1 :
         IF ~m1.objs[pl].loaded
         THEN get_tracks(m1, pl, TRUE, env)
         ELSE IF m1.objs[pl].tracks # <<>>
         THEN [m1 EXCEPT !.objs[pl].tracks =
                             RearrangeLocal(@, range_start, range_length, insert_before)]
         ELSE m1)

\* The list object that self._tracks named when a Playlist method was called,
\* as the method leaves it (done: the request of the method went through).
\* add and clear bind self._tracks to a new list; rearrange first takes the
\* selection out of the list itself, del self._tracks[a:b], and then binds a
\* new one.
OldList(op, obj, done) ==
    IF op.name = "Playlist.rearrange" /\ done /\ obj.loaded /\ obj.tracks # <<>>
    THEN PySlice(obj.tracks, 0, op.range_start)
             \o PySlice(obj.tracks, op.range_start + op.range_length, Len(obj.tracks))
    ELSE obj.tracks

\* ------------------------------------------------------------------ actions

Op(name, pl, tracks, position) ==
    [name |-> name, pl |-> pl, tracks |-> tracks, position |-> position,
     range_start |-> 0, range_length |-> 0, insert_before |-> 0, make_copy |-> FALSE,
     album |-> "", query |-> "", result_types |-> <<>>, x |-> <<>>]

AlbumOp(name, album) == [Op(name, "p1", <<>>, 0) EXCEPT !.album = album]

RearrangeOp(name, pl, range_start, range_length, insert_before) ==
    [Op(name, pl, <<>>, 0) EXCEPT !.range_start = range_start,
                                  !.range_length = range_length,
                                  !.insert_before = insert_before]

\* A call that takes a URL or an object, or a method of the object x.
ObjOp(name, x) == [Op(name, "p1", <<>>, 0) EXCEPT !.x = x]

SearchOp(name, query, result_types) ==
    [Op(name, "p1", <<>>, 0) EXCEPT !.query = query, !.result_types = result_types]

\* The calls whose first step is the check of the _requires_user_auth wrapper.
NeedsUserAuth(op) ==
    op.name \in UserAuthOps \cup {"Playlist.add", "Playlist.clear", "Playlist.rearrange"}

\* What a call does before it reaches the wrapper: Playlist.extend takes
\* len(self), which loads the tracks, and goes on as Playlist.add at that position.
Prefix(op, m, env) ==
    IF op.name = "Playlist.extend"
    THEN Let(get_tracks(m, op.pl, FALSE, env), LAMBDA m1 :
             [m |-> m1,
              op |-> IF Ok(m1) THEN [op EXCEPT !.name = "Playlist.add",
                                               !.position = Len(m1.ret)]
                     ELSE op])
    ELSE [m |-> m, op |-> op]

\* The decorated method itself, or the undecorated method.
Body(op, m, env) ==
    CASE op.name = "get_track" -> get_track(m, op.position, "url", env)
      [] op.name = "get_album" -> get_album(m, op.album, "url", env)
      [] op.name = "get_playlist" -> get_playlist(m, op.pl, env)
      [] op.name = "get_me" -> get_me(m, env)
      [] op.name = "get_private_playlist" -> get_private_playlist(m, op.pl, env)
      [] op.name = "add_to_playlist" ->
             add_to_playlist(m, op.pl, op.tracks, op.position, env)
      [] op.name = "clear_playlist" -> clear_playlist(m, op.pl, op.make_copy, env)
      [] op.name = "rearrange_playlist" ->
             rearrange_playlist(m, op.pl, op.range_start, op.range_length,
                                op.insert_before, env)
      [] op.name = "create_playlist" -> create_playlist(m, env)
      [] op.name = "duplicate_playlist" -> duplicate_playlist(m, op.pl, env)
      [] op.name = "search" -> search_(m, op.query, op.result_types, FALSE, env)
      [] op.name = "im_feeling_lucky" ->
             search_(m, op.query, op.result_types, TRUE, env)
      [] op.name = "get" ->
             get(m, op.x, IF op.result_types = <<>> THEN "None" ELSE op.result_types[1],
                 env)
      [] op.name = "new" ->
             [m EXCEPT !.ret = Object(op.x.cls, op.x.id, m.c.client_id)]
      [] op.name = "Track.album" -> Track_album(m, op.x, env)
      [] op.name = "tracks" -> TrackCollection_get_tracks(m, op.x, FALSE, env)
      [] op.name \in {"update_tracks", "update_top_tracks"} ->
             TrackCollection_get_tracks(m, op.x, TRUE, env)
      [] op.name = "image_url" ->
             IF op.x.cls = "User" THEN User_image_url(m, op.x, env)
             ELSE TrackCollection_image_url(m, op.x, env)
      [] op.name = "Playlist.tracks" -> get_tracks(m, op.pl, FALSE, env)
      [] op.name = "Playlist.update_tracks" -> get_tracks(m, op.pl, TRUE, env)
      [] op.name = "Playlist.add" -> Playlist_add(m, op.pl, op.tracks, op.position, env)
      [] op.name = "Playlist.clear" -> Playlist_clear(m, op.pl, op.make_copy, env)
      [] op.name = "Playlist.rearrange" ->
             Playlist_rearrange(m, op.pl, op.range_start, op.range_length,
                                op.insert_before, env)

\* The call is over: the client, the provider and the objects are as the call
\* left them, and the call is on record.
Return(self, op, m, rec) ==
    /\ heap' = [heap EXCEPT ![self] = m.c]
    /\ remote' = m.rem
    /\ objs' = m.objs
    /\ last' = [op |-> op, self |-> self, exc |-> m.exc, sent |-> m.sent,
                ret |-> IF Ok(m) THEN m.ret ELSE <<>>,
                response |-> IF m.exc = "SpotifyAPIException" THEN m.status ELSE None,
                pre |-> rec.pre, pre_remote |-> rec.pre_remote,
                pre_objs |-> rec.pre_objs, path |-> rec.path, state |-> rec.state,
                prev |-> rec.prev]
    /\ pc' = "returned"
    /\ pending' = NoPending
    /\ UNCHANGED <<now, regVars>>

\* The caller has the return value or the exception and goes on.
Continue ==
    /\ pc = "returned"
    /\ pc' = "idle"
    /\ last' = NoLast
    /\ UNCHANGED <<now, heap, regVars, pending, remote, objs>>

\* The methods of a Playlist object.
PlaylistMethods == {"Playlist.tracks", "Playlist.update_tracks", "Playlist.add",
                    "Playlist.extend", "Playlist.clear", "Playlist.rearrange"}

\* A method of the client, or of a Playlist object that reaches its client
\* through the registry, runs. A call that needs the user's consent and finds no
\* authorization code starts the handshake and blocks in server.handle_request().
Invoke(self, op, env, nonce, prev) ==
    \E m0 \in {Ctx(self)} :
    \E p \in {Prefix(op, m0, env)} :
    \E rec \in {[pre |-> heap[self], pre_remote |-> remote, pre_objs |-> objs,
                  path |-> NoPath, state |-> "", prev |-> prev]} :
        IF Ok(p.m) /\ NeedsUserAuth(p.op) /\ p.m.c.user_access_code = ""
        THEN /\ pc' = "listening"
             /\ pending' = [op |-> p.op, orig |-> op, self |-> self, state |-> nonce,
                            sent |-> p.m.sent, rec |-> rec]
             /\ heap' = [heap EXCEPT ![self] = p.m.c]
             /\ remote' = p.m.rem
             /\ objs' = p.m.objs
             /\ UNCHANGED <<now, regVars, last>>
        ELSE \E m \in {IF Ok(p.m) THEN Body(p.op, p.m, env) ELSE p.m} :
                 Return(self, op, m, rec)

\* The program calls a method; cap bounds the length a track list may reach.
Call(self, op, env, nonce, cap) ==
    /\ pc = "idle"
    /\ self # 0
    /\ heap[self].cls = "SpotifyAPI"
    /\ op.name \in PlaylistMethods =>
           objs[op.pl].made /\ instances[objs[op.pl].client_id] = self
    /\ Len(remote[op.pl].tracks) + Len(op.tracks) <= cap
    /\ Invoke(self, op, env, nonce, NoPrev)

\* The program puts back what it cleared: the tracks of the playlist that
\* clear_playlist or Playlist.clear returned go in again at position 0.
Restore(env, nonce) ==
    /\ pc = "returned"
    /\ last.exc = "none"
    /\ last.op.name \in {"clear_playlist", "Playlist.clear"}
    /\ Invoke(last.self,
              Op(IF last.op.name = "clear_playlist" THEN "add_to_playlist"
                 ELSE "Playlist.add", last.op.pl, last.ret.tracks, 0),
              env, nonce,
              [op |-> last.op, ret |-> last.ret, pre_remote |-> last.pre_remote])

\* The program keeps the Playlist object that a call returned.
Keep ==
    /\ pc = "returned"
    /\ last.exc = "none"
    /\ last.op.name \in {"get_playlist", "get_private_playlist", "create_playlist",
                         "duplicate_playlist"}
    /\ objs' = [objs EXCEPT ![last.ret.id] =
                    [made |-> TRUE, loaded |-> last.ret.loaded,
                     tracks |-> last.ret.tracks,
                     client_id |-> heap[last.self].client_id]]
    /\ pc' = "idle"
    /\ last' = NoLast
    /\ UNCHANGED <<now, heap, regVars, pending, remote>>

\* The attributes and methods that the classes offer, and get, which takes
\* an object of any class.
MethodsOf(cls) ==
    CASE cls = "Track" -> {"Track.album", "get"}
      [] cls = "Playlist" -> {"tracks", "update_tracks", "image_url", "get"}
      [] cls = "Album" -> {"tracks", "image_url", "get"}
      [] cls = "Artist" -> {"tracks", "update_top_tracks", "image_url", "get"}
      [] cls = "User" -> {"image_url", "get"}
      [] OTHER -> {}

\* The program goes on with the object that the last call returned: it reads
\* an attribute of it, calls a method of it, or hands it to get.
Use(env) ==
    /\ pc = "returned"
    /\ last.exc = "none"
    /\ last.op.name \in {"get", "new", "Track.album", "tracks", "update_tracks",
                         "update_top_tracks", "image_url"}
    /\ \E name \in MethodsOf(last.ret.cls) :
         Invoke(last.self, ObjOp(name, last.ret), env, "n1",
              [op |-> last.op, ret |-> last.ret, pre_remote |-> last.pre_remote])

\* The program reads an attribute that the object the last call returned is
\* missing (or asks for an update): the object reaches its client with
\* BaseSpotifyAPI(self._client_id, ''), the lookup in the registry, and calls
\* it.  When the registry has no entry, __new__ makes a plain BaseSpotifyAPI,
\* which has none of the client's methods.
Hydrate(env) ==
    /\ pc = "returned"
    /\ last.exc = "none"
    /\ last.op.name \in {"get", "Track.album", "tracks", "update_tracks",
                         "update_top_tracks", "image_url"}
    /\ \E name \in MethodsOf(last.ret.cls) \ {"get"} :
       \E x \in {last.ret} :
       \E found \in {Lookup(x.client_id)} :
         /\ CASE name = "Track.album" -> x.album = "None" /\ x.client_id # ""
              [] name = "tracks" -> x.client_id # "" /\ ~x.loaded
              [] name = "image_url" ->
                     IF x.cls = "User" THEN x.client_id # "" /\ x.image_url \in {"None", ""}
                     ELSE x.image_url = "None"
              [] OTHER -> TRUE
         /\ IF found # 0
            THEN Invoke(found, ObjOp(name, x), env, "n1",
                        [op |-> last.op, ret |-> x, pre_remote |-> last.pre_remote])
            ELSE /\ last' = [NoLast EXCEPT !.op = ObjOp(name, x),
                                           !.exc = "AttributeError",
                                           !.prev = [op |-> last.op, ret |-> x,
                                                     pre_remote |-> last.pre_remote]]
                 /\ UNCHANGED <<now, heap, regVars, pc, pending, remote, objs>>

\* A mutant of Redirect: the listener is closed after the state check, so a
\* request whose state does not match leaves it open and waiting again.
Redirect_open(path, env) ==
    /\ pc = "listening"
    /\ \E ev \in {[kind |-> "handshake", what |-> "authorize", bearer |-> "none",
                    token |-> "", exp |-> 0, at |-> now, body |-> path,
                    status |-> 200, resp |-> <<>>]} :
       \E m0 \in {[Ctx(pending.self) EXCEPT !.sent = Append(pending.sent, ev)]} :
       \E d \in {prompt_user_auth_done(m0, pending.state, path)} :
           IF d.exc = "SpotifyUserAuthException" /\ d.c.user_access_code = ""
                 /\ "code" \in DOMAIN parse_url_params(path)
           THEN /\ pending' = [pending EXCEPT !.sent = m0.sent]
                /\ UNCHANGED <<now, heap, regVars, pc, remote, objs, last>>
           ELSE \E m \in {Then(d, LAMBDA m1 :
                           Then(request_user_token(m1, env), LAMBDA m2 :
                                Body(pending.op, m2, env)))} :
                    Return(pending.self, pending.orig, m,
                           [pending.rec EXCEPT !.path = path, !.state = pending.state])

\* The browser's request reaches the listener: _prompt_user_auth goes on from
\* server.handle_request(), then the wrapper exchanges the code for a token and
\* calls the method.
Redirect(path, env) ==
    /\ pc = "listening"
    /\ \E m0 \in {[Ctx(pending.self) EXCEPT
                       !.sent = Append(pending.sent,
                                       [kind |-> "handshake", what |-> "authorize",
                                        bearer |-> "none", token |-> "", exp |-> 0,
                                        at |-> now, body |-> path, status |-> 200,
                                        resp |-> <<>>])]} :
       \E m \in {Then(prompt_user_auth_done(m0, pending.state, path), LAMBDA m1 :
                  Then(request_user_token(m1, env), LAMBDA m2 :
                       Body(pending.op, m2, env)))} :
           Return(pending.self, pending.orig, m,
                  [pending.rec EXCEPT !.path = path, !.state = pending.state])

\* Playlist(id, name, owner, client_id=...): an object without tracks.
NewPlaylist(pl, client_id) ==
    /\ pc = "idle"
    /\ remote[pl].exists
    /\ ~objs[pl].made
    /\ objs' = [objs EXCEPT ![pl] = [made |-> TRUE, loaded |-> FALSE, tracks |-> <<>>,
                                     client_id |-> client_id]]
    /\ UNCHANGED <<now, heap, regVars, pc, pending, remote, last>>

\* A mutant of Tick: the listener gives up when time passes and the call is
\* abandoned.
Tick_timeout ==
    /\ pc # "returned"
    /\ now < MaxClock
    /\ now' = now + 1
    /\ pc' = IF pc = "listening" THEN "idle" ELSE pc
    /\ pending' = IF pc = "listening" THEN NoPending ELSE pending
    /\ UNCHANGED <<heap, regVars, remote, objs, last>>

\* Time passes.
Tick ==
    /\ pc # "returned"
    /\ now < MaxClock
    /\ now' = now + 1
    /\ UNCHANGED <<heap, regVars, pc, pending, remote, objs, last>>

\* ------------------------------------------------------------------ specifications

MaxFail == 2
MaxAuthFail == 1
MaxAuthTracks == 2
MaxTracks == 104
MaxSmall == 4
MaxPages == 3

\* The client of the token and playlist specifications, as __init__ leaves it.
TheClient == 1

\* One client is registered and referenced; nothing is being called.
InitCaller ==
    /\ instances = [c \in ClientIds |-> IF c = "idA" THEN TheClient ELSE 0]
    /\ refs = {TheClient}
    /\ made = <<[cls |-> "SpotifyAPI", client_id |-> "idA", client_secret |-> "s1",
                 obj |-> TheClient, exc |-> "none"]>>
    /\ pc = "idle"
    /\ pending = NoPending
    /\ objs = [p \in PlaylistIds |-> NoPlaylistObj]
    /\ last = NoLast

InitClient ==
    /\ heap = [o \in ObjIds |-> IF o = TheClient THEN NewClient("idA", "s1", "US") ELSE NoObj]
    /\ InitCaller

InitRegistry ==
    /\ now = 0
    /\ heap = [o \in ObjIds |-> NoObj]
    /\ instances = [c \in ClientIds |-> 0]
    /\ refs = {}
    /\ made = <<>>
    /\ pc = "idle"
    /\ pending = NoPending
    /\ remote = [p \in PlaylistIds |-> NoPlaylist]
    /\ objs = [p \in PlaylistIds |-> NoPlaylistObj]
    /\ last = NoLast

NextRegistry ==
    \/ \E c \in ClientIds, s \in Secrets, m \in Markets : Construct(c, s, m)
    \/ \E c \in ClientIds, s \in Secrets : ConstructBase(c, s)
    \/ \E o \in ObjIds : Release(o)
    \/ \E o \in ObjIds : Collect(o)

SpecRegistry == InitRegistry /\ [][NextRegistry]_vars

\* The token lifecycle: one client from its construction on, a playlist of two
\* tracks at the provider, every redirect the listener can receive.
InitAuth ==
    /\ now = 0
    /\ InitClient
    /\ remote = [p \in PlaylistIds |->
                    IF p = "p1" THEN [exists |-> TRUE, tracks |-> <<1, 2>>] ELSE NoPlaylist]

AuthOps ==
    {Op("get_track", "p1", <<>>, 1),
     Op("get_playlist", "p1", <<>>, 0),
     Op("get_me", "p1", <<>>, 0),
     Op("get_private_playlist", "p1", <<>>, 0),
     Op("add_to_playlist", "p1", <<3>>, 0),
     Op("clear_playlist", "p1", <<>>, 0),
     Op("create_playlist", "p1", <<>>, 0)}

AuthEnvs == [grant : {"ok", "err"}, expires_in : ExpiresIns, fail : 0..MaxAuthFail,
             page : {BatchSize},
             code : {500}]

NextAuth ==
    \/ Tick
    \/ \E op \in AuthOps, env \in AuthEnvs, n \in Nonces :
           Call(TheClient, op, env, n, MaxAuthTracks)
    \/ \E path \in Paths, env \in AuthEnvs : Redirect(path, env)
    \/ Continue

SpecAuth == InitAuth /\ [][NextAuth]_vars

\* The handshake of two decorated methods, where a request does reach the
\* listener while it waits: server.handle_request() returns once the browser
\* has been redirected.
NextHandshake ==
    \/ Tick
    \/ \E op \in {Op("get_me", "p1", <<>>, 0), Op("clear_playlist", "p1", <<>>, 0)},
          env \in AuthEnvs, n \in Nonces :
           Call(TheClient, op, env, n, MaxAuthTracks)
    \/ \E path \in Paths, env \in AuthEnvs : Redirect(path, env)
    \/ Continue

\* A client that has been in use, with its tokens granted and the user's
\* consent given, while the program constructs clients again.
NextReuse ==
    \/ \E op \in {Op("get_me", "p1", <<>>, 0), Op("get_playlist", "p1", <<>>, 0)},
          env \in AuthEnvs : Call(TheClient, op, env, "n1", MaxAuthTracks)
    \/ \E env \in AuthEnvs : Redirect(<<<<"code", "c1">>, <<"state", "n1">>>>, env)
    \/ \E c \in ClientIds, s \in Secrets, mk \in Markets : Construct(c, s, mk)
    \/ Continue

SpecReuse == InitAuth /\ [][NextReuse]_vars

SpecHandshake ==
    /\ InitAuth /\ [][NextHandshake]_vars
    /\ WF_vars(\E path \in Paths, env \in AuthEnvs : Redirect(path, env))

\* The playlists: the client one clock reading after its construction, a
\* playlist of three tracks at the provider, a user who consents, lists short
\* enough for one request and lists that need two.
InitPlaylist ==
    /\ now = 1
    /\ heap = [o \in ObjIds |->
                  IF o = TheClient
                  THEN [NewClient("idA", "s1", "US") EXCEPT !.expires = 0,
                                                           !.user_expires = 0]
                  ELSE NoObj]
    /\ InitCaller
    /\ remote = [p \in PlaylistIds |->
                    IF p = "p1" THEN [exists |-> TRUE, tracks |-> <<1, 2, 3>>]
                    ELSE NoPlaylist]

Short == <<5>>
Long == [i \in 1..(BatchSize + 1) |-> BatchSize + i]

\* The calls on the client.
PlaylistOps ==
    {Op("get_playlist", "p1", <<>>, 0), AlbumOp("get_album", "a1"),
     AlbumOp("get_album", "a2"),
     Op("clear_playlist", "p1", <<>>, 0),
     RearrangeOp("rearrange_playlist", "p1", 0, 1, 2),
     RearrangeOp("rearrange_playlist", "p1", 2, 1, 0)}
    \cup {Op("add_to_playlist", "p1", t, pos) : t \in {Short, Long}, pos \in {0, 1}}

\* The calls on a Playlist object.
ObjectOps ==
    {Op("get_playlist", "p1", <<>>, 0),
     Op("Playlist.tracks", "p1", <<>>, 0), Op("Playlist.update_tracks", "p1", <<>>, 0),
     Op("Playlist.clear", "p1", <<>>, 0), Op("Playlist.extend", "p1", Short, 0),
     Op("Playlist.add", "p1", Long, 0),
     RearrangeOp("Playlist.rearrange", "p1", 0, 1, 2),
     RearrangeOp("Playlist.rearrange", "p1", 2, 1, 0)}
    \cup {Op("Playlist.add", "p1", Short, pos) : pos \in {0, 1}}

PageSizes == {2, BatchSize \div 2, BatchSize}

\* The provider's page size lets it serve the playlist in MaxPages pages.
Served(op, env) == Len(remote[op.pl].tracks) <= MaxPages * env.page

PlaylistEnvs == [grant : {"ok"}, expires_in : {2}, fail : 0..MaxFail, page : PageSizes,
                 code : {500}]

ObjectEnvs == [grant : {"ok"}, expires_in : {2}, fail : {0}, page : {BatchSize},
               code : {500}]

\* A long list goes in wherever it fits, and a playlist of any length is read
\* or cleared; a short list goes into a short playlist, and only a short
\* playlist is rearranged.
Cap(op) ==
    IF op.tracks = Short \/ op.name \in {"rearrange_playlist", "Playlist.rearrange"}
    THEN MaxSmall ELSE MaxTracks

GoodPath == <<<<"code", "c1">>, <<"state", "n1">>>>

NextPlaylist ==
    \/ \E op \in PlaylistOps, env \in PlaylistEnvs :
           Served(op, env) /\ Call(TheClient, op, env, "n1", Cap(op))
    \/ \E env \in PlaylistEnvs : Redirect(GoodPath, env)
    \/ \E env \in PlaylistEnvs : Restore(env, "n1")
    \/ Continue

SpecPlaylist == InitPlaylist /\ [][NextPlaylist]_vars

NextObject ==
    \/ \E op \in ObjectOps, env \in ObjectEnvs :
           Call(TheClient, op, env, "n1", Cap(op))
    \/ \E env \in ObjectEnvs : Redirect(GoodPath, env)
    \/ \E env \in ObjectEnvs : Restore(env, "n1")
    \/ NewPlaylist("p1", "idA")
    \/ Keep
    \/ Continue

SpecObject == InitPlaylist /\ [][NextObject]_vars

\* Additions and clearings of lists of 0, 1, 100 and 101 tracks, on the client
\* and on a Playlist object, where any one request of a call may be answered
\* with an error.  A list is added to a short playlist; a playlist of any
\* length is cleared.
MaxBatchFail == 4

Hundred == [i \in 1..BatchSize |-> BatchSize + i]

BatchOps ==
    {Op("clear_playlist", "p1", <<>>, 0), Op("Playlist.clear", "p1", <<>>, 0)}
    \cup {Op(name, "p1", t, 0) : name \in {"add_to_playlist", "Playlist.add"},
                                 t \in {<<>>, Short, Hundred, Long}}

BatchEnvs == [grant : {"ok"}, expires_in : {2}, fail : 0..MaxBatchFail, page : {BatchSize},
              code : {500}]

\* The longest playlist the call is made on: a list is added to a short
\* playlist, and to a Playlist object whose in-memory list is short.
BatchCap(op) ==
    IF op.name \in {"clear_playlist", "Playlist.clear"} THEN MaxSmall + Len(Long)
    ELSE IF op.name = "Playlist.add" /\ Len(objs[op.pl].tracks) > MaxSmall THEN -1
    ELSE MaxSmall + Len(op.tracks)

NextBatch ==
    \/ \E op \in BatchOps, env \in BatchEnvs :
           Call(TheClient, op, env, "n1", BatchCap(op))
    \/ \E env \in BatchEnvs : Redirect(GoodPath, env)
    \/ NewPlaylist("p1", "idA")
    \/ Continue

SpecBatch == InitPlaylist /\ [][NextBatch]_vars

\* The objects: the client fetches by URL or the program constructs an object
\* of each class, and goes on reading the attributes of what it got, any number
\* of times; the playlist may have been emptied before.
LazyOps ==
    {ObjOp("get", Url(k[1], k[2])) :
         k \in {<<"playlist", "p1">>, <<"track", "t1">>, <<"artist", "r1">>,
                <<"album", "a1">>, <<"user", "u1">>, <<"user", "u2">>,
                <<"badurl", "x">>}}
    \cup {ObjOp("new", Object(k[1], k[2], "")) :
              k \in {<<"Playlist", "p1">>, <<"Track", "t1">>, <<"Artist", "r1">>,
                     <<"Album", "a1">>, <<"User", "u1">>}}
    \cup {Op("clear_playlist", "p1", <<>>, 0)}

NextLazy ==
    \/ \E op \in LazyOps, env \in ObjectEnvs : Call(TheClient, op, env, "n1", MaxSmall)
    \/ \E env \in ObjectEnvs : Use(env)
    \/ \E env \in ObjectEnvs : Redirect(GoodPath, env)
    \/ Continue

SpecLazy == InitPlaylist /\ [][NextLazy]_vars

\* The objects outlive the client: the client fetches a playlist and a user
\* without a picture, the program reads their attributes, and at any moment it
\* may drop the client, which is then reclaimed, and construct a client anew.
NextOrphan ==
    \/ \E k \in {<<"playlist", "p1">>, <<"user", "u2">>}, env \in ObjectEnvs :
           Call(TheClient, ObjOp("get", Url(k[1], k[2])), env, "n1", MaxSmall)
    \/ \E env \in ObjectEnvs : Hydrate(env)
    \/ Release(TheClient)
    \/ Collect(TheClient)
    \/ \E s \in Secrets, mk \in Markets : Construct("idA", s, mk)
    \/ Continue

SpecOrphan == InitPlaylist /\ [][NextOrphan]_vars

\* The strings that get is called with: share links with and without a query
\* string, links of an unknown kind, and strings that are no links, with and
\* without a result_type, alphanumeric or not, known to the provider or not.
LinkOps ==
    {ObjOp("get", Url(k[1], k[2])) :
         k \in {<<"playlist", "p1">>, <<"playlist", "p1?si=q">>, <<"track", "t1?si=q">>,
                <<"album", "a1">>, <<"album", "a1?si=q">>, <<"user", "u2">>,
                <<"user", "u2?si=q">>, <<"badurl", "x">>, <<"show", "a1">>}}
    \cup {[ObjOp("get", Object("str", k[2], "")) EXCEPT !.result_types = k[1]] :
              k \in {<<<<>>, "p1">>, <<<<>>, "http://open.spotify.com/album/a1">>,
                     <<<<"show">>, "a1">>, <<<<"album">>, "non_alnum_fake_id">>,
                     <<<<"user">>, "a-1">>, <<<<"track">>, "a1?si=q">>,
                     <<<<"playlist">>, "p2">>, <<<<"album">>, "a9">>,
                     <<<<"artist">>, "r9">>, <<<<"user">>, "u9">>,
                     <<<<"playlist">>, "p1">>, <<<<"artist">>, "r1">>,
                     <<<<"user">>, "u1">>}}

NextLinks ==
    \/ \E op \in LinkOps, env \in ObjectEnvs : Call(TheClient, op, env, "n1", MaxSmall)
    \/ Continue

SpecLinks == InitPlaylist /\ [][NextLinks]_vars

\* The catalogue: searches of every list of kinds, a read and a write of a
\* playlist, by a client whose app token is yet to be granted or runs out as time
\* passes; the provider may answer a request with an error or with 304.
MaxCatalogFail == 1

TypeLists ==
    {SelectSeq(DefaultTypes, LAMBDA t : t \in S) : S \in SUBSET {"album", "artist", "playlist", "track"}}
    \cup {<<"track", "album">>, <<"user">>, <<"track", "show">>, <<"episode">>,
          <<"audiobook", "user">>}

CatalogOps ==
    {SearchOp("search", q, S) : q \in {"", "hello", "nothing"}, S \in TypeLists}
    \cup {SearchOp("im_feeling_lucky", q, <<t>>) :
              q \in {"hello", "nothing"}, t \in {"album", "track", "user"}}
    \cup {Op("get_playlist", "p1", <<>>, 0), Op("add_to_playlist", "p1", Short, 0)}

CatalogEnvs == [grant : {"ok", "err"}, expires_in : ExpiresIns,
               fail : 0..MaxCatalogFail, page : {BatchSize}, code : {304, 500}]

NextCatalog ==
    \/ Tick
    \/ \E op \in CatalogOps, env \in CatalogEnvs :
           Call(TheClient, op, env, "n1", MaxSmall)
    \/ \E env \in CatalogEnvs : Redirect(GoodPath, env)
    \/ Continue

SpecCatalog == InitAuth /\ [][NextCatalog]_vars

\* ------------------------------------------------------------------ C1

\* Two constructions that returned an object, both objects still referenced.
Live(i) == made[i].obj # 0 /\ made[i].obj \in refs

\* C1 (as stated): among constructions whose instances are still referenced, the
\* same credential pair gives the same instance and different pairs give
\* distinct instances.
C1_AsStated ==
    \A i, j \in 1..Len(made) :
        (i < j /\ Live(i) /\ Live(j)) =>
            IF made[i].client_id = made[j].client_id
               /\ made[i].client_secret = made[j].client_secret
            THEN made[i].obj = made[j].obj
            ELSE made[i].obj # made[j].obj

\* C1 (amended): a construction whose client id equals that of an earlier
\* SpotifyAPI construction still referenced returns that instance, whatever
\* the secrets; constructions with different client ids return distinct
\* instances.
C1_ByClientId ==
    \A i, j \in 1..Len(made) :
        (i < j /\ Live(i) /\ Live(j)) =>
            /\ (made[i].cls = "SpotifyAPI" /\ made[i].client_id = made[j].client_id)
                   => made[i].obj = made[j].obj
            /\ made[i].client_id # made[j].client_id => made[i].obj # made[j].obj

\* Two SpotifyAPI constructions with one client id and different secrets, and a
\* third with another client id, all referenced.
C1_Witness ==
    \E i, j, k \in 1..Len(made) :
        /\ i < j /\ Live(i) /\ Live(j) /\ Live(k)
        /\ made[i].cls = "SpotifyAPI" /\ made[j].cls = "SpotifyAPI"
        /\ made[i].client_id = made[j].client_id
        /\ made[i].client_secret # made[j].client_secret
        /\ made[k].client_id # made[i].client_id

\* ------------------------------------------------------------------ C2

\* The requests of the call that has just returned.
Sent == last.sent
SentIdx == 1..Len(last.sent)

IsApi(e, bearer) == e.kind = "api" /\ e.bearer = bearer
IsGrant(e, grant_type) == e.kind = "grant" /\ e.what = grant_type

\* C2: every request that carries the app-level bearer token carries a token
\* that came from a client-credentials grant and whose stored expiry is not
\* earlier than the time of the request; none carries the empty initial token.
C2_AppTokenValid ==
    \A i \in SentIdx :
        IsApi(Sent[i], "app") =>
            /\ Sent[i].token = "app_token"
            /\ Sent[i].exp >= Sent[i].at

\* ------------------------------------------------------------------ C3

\* C3: a call of a method that needs the user's consent, made when no user
\* token has ever been obtained, runs the handshake before it sends any request
\* with the user token.
C3_HandshakeFirst ==
    (pc = "returned" /\ last.op.name \in UserAuthOps /\ last.pre.user_token = "") =>
        \A i \in SentIdx :
            IsApi(Sent[i], "user") =>
                \E j \in 1..(i - 1) : Sent[j].kind = "handshake"

\* ------------------------------------------------------------------ C4

\* C4: once the handshake and the exchange of the code have succeeded (the
\* client holds a refresh token), no call runs the handshake or exchanges a
\* code again; a call that finds the user token expired sends its requests
\* with the user token only after a refresh-token grant, and never with an
\* expired token.
C4_RefreshNotHandshake ==
    /\ pc = "listening" => heap[pending.self].user_refresh_token = ""
    /\ (pc = "returned" /\ last.pre.user_refresh_token # "") =>
           /\ \A i \in SentIdx :
                  /\ Sent[i].kind # "handshake"
                  /\ ~IsGrant(Sent[i], "authorization_code")
                  /\ IsApi(Sent[i], "user") => Sent[i].exp >= Sent[i].at
           /\ now > last.pre.user_expires =>
                  \A i \in SentIdx :
                      IsApi(Sent[i], "user") =>
                          \E j \in 1..(i - 1) :
                              IsGrant(Sent[j], "refresh_token") /\ Sent[j].status = 200

\* A call that found the user token expired, refreshed it and sent a request.
C4_Witness ==
    /\ pc = "returned"
    /\ last.pre.user_refresh_token # ""
    /\ now > last.pre.user_expires
    /\ \E i \in SentIdx : IsApi(Sent[i], "user") /\ Sent[i].status = 200

\* ------------------------------------------------------------------ C5

\* The call that has just returned ran the handshake and the redirect carried a
\* state other than the nonce.
StateMismatch ==
    /\ pc = "returned"
    /\ last.path # NoPath
    /\ "state" \in DOMAIN parse_url_params(last.path)
    /\ parse_url_params(last.path)["state"] # last.state

\* C5: a redirect whose state differs from the nonce makes the call raise
\* SpotifyUserAuthException; the authorization code stays empty, no token
\* request is sent and the method's body does not run.
C5_MismatchRejected ==
    StateMismatch =>
        /\ last.exc = "SpotifyUserAuthException"
        /\ heap[last.self].user_access_code = ""
        /\ \A i \in SentIdx : Sent[i].kind # "grant"
        /\ Sent[Len(Sent)].kind = "handshake"
        /\ remote = last.pre_remote
        /\ objs = last.pre_objs

\* A mismatching redirect that did carry an authorization code.
C5_Witness ==
    /\ StateMismatch
    /\ "code" \in DOMAIN parse_url_params(last.path)

\* ------------------------------------------------------------------ C6

\* The requests of the last call that fetched a page of tracks, in order.
PageIdx == SelectSeq([i \in 1..Len(last.sent) |-> i],
                     LAMBDA i : last.sent[i].what \in {"GET playlist", "GET album",
                                                       "GET slice"})
Pages == [k \in 1..Len(PageIdx) |-> last.sent[PageIdx[k]]]

\* The tracks of a page's items, and of the items of pages k..Len(Pages), in order.
ItemTracks(items) ==
    [i \in 1..Len(items) |->
        IF "track" \in DOMAIN items[i] THEN items[i].track.id ELSE items[i].id]

RECURSIVE Concat(_)
Concat(k) ==
    IF k > Len(Pages) THEN <<>>
    ELSE ItemTracks(Pages[k].resp.items) \o Concat(k + 1)

RECURSIVE SumSizes(_)
SumSizes(k) == IF k > Len(Pages) THEN 0 ELSE Len(Pages[k].resp.items) + SumSizes(k + 1)

\* C6: when get_playlist or get_album has fetched its resource and returns, the
\* track list it returns is the concatenation, in chain order, of the items of
\* the pages it was sent, its length is the sum of the page sizes, each page
\* request after the first is for the next URL of the page before, and the last
\* page fetched is the one without a next URL.
C6_PagesConcatenated ==
    (/\ pc = "returned"
     /\ last.op.name \in {"get_playlist", "get_album"}
     /\ last.exc = "none"
     /\ Pages # <<>>)
    => /\ last.ret.tracks = Concat(1)
       /\ Len(last.ret.tracks) = SumSizes(1)
       /\ \A k \in 1..(Len(Pages) - 1) :
              /\ Pages[k].resp.next # None
              /\ Pages[k + 1].what = "GET slice"
              /\ Pages[k + 1].body.offset = Pages[k].resp.next
       /\ Pages[Len(Pages)].resp.next = None

\* A playlist or an album of three pages or more has been fetched.
C6_Witness ==
    /\ pc = "returned"
    /\ last.op.name \in {"get_playlist", "get_album"}
    /\ last.exc = "none"
    /\ Len(Pages) >= 3
    /\ Len(last.ret.tracks) > 2 * Len(Pages[1].resp.items)

\* ------------------------------------------------------------------ C7

\* C7: after add_to_playlist(playlist, tracks, position) has succeeded with a
\* position between 0 and the playlist's length, the remote playlist is
\* old[:position] + tracks + old[position:].
C7_AddSplices ==
    LET old == last.pre_remote[last.op.pl].tracks
    IN  (/\ pc = "returned"
         /\ last.op.name = "add_to_playlist"
         /\ last.exc = "none"
         /\ last.op.position <= Len(old))
        => remote[last.op.pl].tracks =
               PySlice(old, 0, last.op.position) \o last.op.tracks
                   \o PySlice(old, last.op.position, Len(old))

\* ------------------------------------------------------------------ C8

\* C8: after Playlist.add(tracks, position) has returned, the object's
\* in-memory track list is the remote playlist's track list, whether or not the
\* object had its tracks loaded before the call.
C8_AddMirrorsRemote ==
    (/\ pc = "returned"
     /\ last.op.name = "Playlist.add"
     /\ last.exc = "none")
    => /\ objs[last.op.pl].loaded
       /\ objs[last.op.pl].tracks = remote[last.op.pl].tracks

\* ------------------------------------------------------------------ C9

\* C9: after Playlist.rearrange(range_start, range_length, insert_before) has
\* succeeded on an object whose tracks were loaded, with the range inside the
\* list and insert_before outside the range, the in-memory list is the list
\* before the call with the range moved to sit right before the track that was
\* at index insert_before.
C9_RearrangeAsProvider ==
    LET old == last.pre_objs[last.op.pl].tracks
        range_end == last.op.range_start + last.op.range_length
    IN  (/\ pc = "returned"
         /\ last.op.name = "Playlist.rearrange"
         /\ last.exc = "none"
         /\ last.pre_objs[last.op.pl].loaded
         /\ range_end <= Len(old)
         /\ last.op.insert_before <= Len(old)
         /\ last.op.insert_before <= last.op.range_start
                \/ last.op.insert_before >= range_end)
        => objs[last.op.pl].tracks =
               IF last.op.insert_before <= last.op.range_start
               THEN PySlice(old, 0, last.op.insert_before)
                        \o PySlice(old, last.op.range_start, range_end)
                        \o PySlice(old, last.op.insert_before, last.op.range_start)
                        \o PySlice(old, range_end, Len(old))
               ELSE PySlice(old, 0, last.op.range_start)
                        \o PySlice(old, range_end, last.op.insert_before)
                        \o PySlice(old, last.op.range_start, range_end)
                        \o PySlice(old, last.op.insert_before, Len(old))

\* ------------------------------------------------------------------ C10

\* C10: when a playlist whose tracks were L has been cleared and L has then been
\* added at position 0, the remote playlist has the tracks L in order.
C10_ClearAddRestores ==
    (/\ pc = "returned"
     /\ last.prev.op.name = "clear_playlist"
     /\ last.op.name = "add_to_playlist"
     /\ last.exc = "none")
    => remote[last.op.pl].tracks = last.prev.pre_remote[last.op.pl].tracks

\* A playlist of more than 100 tracks has been cleared and filled again.
C10_Witness ==
    /\ pc = "returned"
    /\ last.prev.op.name = "clear_playlist"
    /\ last.op.name = "add_to_playlist"
    /\ last.op.position = 0
    /\ last.exc = "none"
    /\ last.op.tracks = last.prev.pre_remote[last.op.pl].tracks
    /\ last.pre_remote[last.op.pl].tracks = <<>>
    /\ Len(last.op.tracks) > BatchSize

\* ------------------------------------------------------------------ C11

\* The mutation requests (batches) of the last call, in order.
MutIdx == SelectSeq([i \in 1..Len(last.sent) |-> i],
                    LAMBDA i : last.sent[i].what \in {"POST tracks", "DELETE tracks"})
Batches == [k \in 1..Len(MutIdx) |-> last.sent[MutIdx[k]]]

\* What the provider's list is after the first k batches, all of them accepted.
RECURSIVE Applied(_, _)
Applied(list, k) ==
    IF k = 0 THEN list
    ELSE IF Batches[k].what = "POST tracks"
         THEN ProviderAdd(Applied(list, k - 1), Batches[k].body.uris,
                          Batches[k].body.position)
         ELSE ProviderRemove(Applied(list, k - 1), Batches[k].body.tracks)

BatchCalls == {"add_to_playlist", "clear_playlist", "Playlist.add", "Playlist.clear"}

\* C11: when batch k of an addition or a clearing is answered with an error,
\* the call raises SpotifyAPIException, the failed request is the last request
\* of the call, the batches before it were accepted and the remote playlist is
\* what they left, and Playlist.add and Playlist.clear leave the object as it
\* was.
C11_FailedBatchStops ==
    (pc = "returned" /\ last.op.name \in BatchCalls) =>
        \A k \in 1..Len(Batches) :
            Batches[k].status >= 400 =>
                /\ last.exc = "SpotifyAPIException"
                /\ MutIdx[k] = Len(Sent)
                /\ \A j \in 1..(k - 1) : Batches[j].status = 200
                /\ remote[last.op.pl].tracks =
                       Applied(last.pre_remote[last.op.pl].tracks, k - 1)
                /\ \A p \in PlaylistIds \ {last.op.pl} : remote[p] = last.pre_remote[p]
                /\ last.op.name \in {"Playlist.add", "Playlist.clear"} =>
                       objs = last.pre_objs

\* The second batch of a call on a Playlist object with tracks in memory has
\* failed, after the first batch changed the remote playlist.
C11_Witness ==
    /\ pc = "returned"
    /\ last.op.name \in {"Playlist.add", "Playlist.clear"}
    /\ Len(Batches) = 2
    /\ Batches[2].status >= 400
    /\ remote[last.op.pl].tracks # last.pre_remote[last.op.pl].tracks
    /\ last.pre_objs[last.op.pl].loaded
    /\ last.pre_objs[last.op.pl].tracks # <<>>

\* ------------------------------------------------------------------ C12

\* The URIs that batch k carries, and those of batches k..Len(Batches), in order.
BatchUris(k) ==
    IF Batches[k].what = "POST tracks" THEN Batches[k].body.uris
    ELSE [j \in 1..Len(Batches[k].body.tracks) |-> Batches[k].body.tracks[j].uri]

RECURSIVE AllUris(_)
AllUris(k) == IF k > Len(Batches) THEN <<>> ELSE BatchUris(k) \o AllUris(k + 1)

\* The track list of the call: the one passed to add_to_playlist, the one the
\* playlist had when clear_playlist was called.
CallTracks ==
    IF last.op.name = "add_to_playlist" THEN last.op.tracks
    ELSE last.pre_remote[last.op.pl].tracks

\* C12: a call of add_to_playlist or clear_playlist on a list of n tracks that
\* returns has sent ceil(n / 100) mutation requests, each with 1 to 100 URIs,
\* and the URIs of the requests, in request order, are the URIs of the list in
\* order.
C12_BatchesPartition ==
    (/\ pc = "returned"
     /\ last.op.name \in {"add_to_playlist", "clear_playlist"}
     /\ last.exc = "none")
    => /\ Len(Batches) = (Len(CallTracks) + BatchSize - 1) \div BatchSize
       /\ \A k \in 1..Len(Batches) :
              /\ Len(BatchUris(k)) >= 1
              /\ Len(BatchUris(k)) <= BatchSize
              /\ Batches[k].what = IF last.op.name = "add_to_playlist"
                                   THEN "POST tracks" ELSE "DELETE tracks"
       /\ AllUris(1) = [i \in 1..Len(CallTracks) |-> Uri(CallTracks[i])]

\* A playlist of more than 100 tracks, not a multiple of 100, has been cleared.
C12_Witness ==
    /\ pc = "returned"
    /\ last.op.name = "clear_playlist"
    /\ last.exc = "none"
    /\ Len(Batches) = 2
    /\ Len(BatchUris(1)) = BatchSize
    /\ Len(BatchUris(2)) < BatchSize

\* ------------------------------------------------------------------ C13

\* The last call was a search that named a kind _search turns down.
AskedUnsupported ==
    /\ pc = "returned"
    /\ last.op.name \in {"search", "im_feeling_lucky"}
    /\ \E i \in 1..Len(last.op.result_types) :
           last.op.result_types[i] \in {"user", "show", "episode", "audiobook"}

\* C13: search or im_feeling_lucky with user, show, episode or audiobook among
\* the result types raises NotImplementedError, has sent no request at all and
\* leaves the client as it was.
C13_UnsupportedRaisesFirst ==
    AskedUnsupported =>
        /\ last.exc = "NotImplementedError"
        /\ Sent = <<>>
        /\ heap[last.self] = last.pre
        /\ remote = last.pre_remote

\* Such a search by a client whose app token had run out, so that a request
\* would have needed a token grant first.
C13_Witness ==
    /\ AskedUnsupported
    /\ now > last.pre.expires
    /\ Len(last.op.result_types) = 2

\* ------------------------------------------------------------------ C14

\* The ids of a list of objects.
Ids(list) == [i \in 1..Len(list) |-> list[i].id]

\* The last call was a search for kinds that _search supports, or for no kind in
\* particular, and the provider answered it.
SearchAnswered ==
    /\ pc = "returned"
    /\ last.op.name = "search"
    /\ \A i \in 1..Len(last.op.result_types) :
           last.op.result_types[i] \in {"album", "artist", "playlist", "track"}
    /\ Sent # <<>>
    /\ Sent[Len(Sent)].what = "GET search"
    /\ Sent[Len(Sent)].status = 200

\* C14: a search that the provider answers returns a SearchResult, whether the
\* result types were omitted or were any non-empty list of album, artist,
\* playlist and track; for each kind asked for, the result's list holds the
\* provider's items of that kind in the provider's order, and len(result) is
\* the sum of the lengths of its lists.
C14_SearchReturnsResult ==
    SearchAnswered =>
        LET resp == Sent[Len(Sent)].resp
        IN  /\ last.exc = "none"
            /\ last.ret.cls = "SearchResult"
            /\ "album" \in DOMAIN resp => Ids(last.ret.albums) = resp["album"].items
            /\ "artist" \in DOMAIN resp => Ids(last.ret.artists) = resp["artist"].items
            /\ "playlist" \in DOMAIN resp =>
                   Ids(last.ret.playlists) = resp["playlist"].items
            /\ "track" \in DOMAIN resp => Ids(last.ret.tracks) = resp["track"].items
            /\ SearchResult_len(last.ret) =
                   Len(last.ret.albums) + Len(last.ret.artists)
                       + Len(last.ret.playlists) + Len(last.ret.tracks)

\* ------------------------------------------------------------------ C15

\* C15: a response whose status is not a success status (2xx), to a read, a
\* write or a token request, makes the call raise SpotifyAPIException with that
\* response's status, and the request it answered is the last the call sent.
C15_NonSuccessRaises ==
    pc = "returned" =>
        \A i \in SentIdx :
            (Sent[i].kind \in {"api", "grant"} /\ Sent[i].status \notin 200..299) =>
                /\ last.exc = "SpotifyAPIException"
                /\ last.response = Sent[i].status
                /\ i = Len(Sent)

\* ------------------------------------------------------------------ C16

\* The call that has just returned ran the handshake, and the redirect carried
\* the nonce as its state and an error code instead of an authorization code.
ErrorRedirect ==
    /\ pc = "returned"
    /\ last.path # NoPath
    /\ "state" \in DOMAIN parse_url_params(last.path)
    /\ parse_url_params(last.path)["state"] = last.state
    /\ "code" \notin DOMAIN parse_url_params(last.path)
    /\ "error" \in DOMAIN parse_url_params(last.path)

\* The authorization code is still empty and nothing was sent after the
\* handshake: no exchange of a code for a token.
NoExchange ==
    /\ heap[last.self].user_access_code = ""
    /\ \A i \in SentIdx : ~IsGrant(Sent[i], "authorization_code")
    /\ Sent[Len(Sent)].kind = "handshake"

\* C16 (as stated): a redirect with the right state and an error code makes the
\* call raise SpotifyUserAuthException, whatever the error code; the
\* authorization code stays empty and no token exchange is attempted.
C16_AsStated ==
    ErrorRedirect => (last.exc = "SpotifyUserAuthException" /\ NoExchange)

\* C16 (amended): such a redirect makes the call raise SpotifyUserAuthException
\* when the error code is access_denied and SpotifyAPIException, without a
\* response, when it is any other; in both cases the authorization code stays
\* empty and no token exchange is attempted.
C16_ByErrorCode ==
    ErrorRedirect =>
        /\ IF parse_url_params(last.path)["error"] = "access_denied"
           THEN last.exc = "SpotifyUserAuthException"
           ELSE last.exc = "SpotifyAPIException" /\ last.response = None
        /\ NoExchange
        /\ remote = last.pre_remote

\* A redirect with the right state and an error code other than access_denied.
C16_Witness ==
    /\ ErrorRedirect
    /\ parse_url_params(last.path)["error"] # "access_denied"
    /\ last.op.name = "clear_playlist"

\* ------------------------------------------------------------------ C17

\* C17: a call that waits in the handshake goes on only when a request has
\* reached the listener, however much time passes, and then it returns, with a
\* value or with an exception; if a request does reach the listener, the call
\* returns.
C17_ReturnsAfterRequest ==
    /\ [][pc = "listening" =>
              \/ pc' = "listening" /\ pending' = pending
              \/ pc' = "returned" /\ last'.path # NoPath]_vars
    /\ (pc = "listening") ~> (pc = "returned")

\* The call is still waiting when the clock has gone as far as it goes.
C17_Witness == pc = "listening" /\ now = MaxClock

\* ------------------------------------------------------------------ C18

\* The reads of a lazily hydrated attribute.
LazyReads == {"Track.album", "tracks", "image_url"}

\* What the object holds of the attribute that the call reads.
Stored(name, x) ==
    CASE name = "Track.album" -> [held |-> x.album # "None", value |-> <<x.album>>]
      [] name = "tracks" -> [held |-> x.loaded, value |-> x.tracks]
      [] OTHER -> [held |-> x.image_url # "None", value |-> <<x.image_url>>]

\* C18: the first read of a lazily hydrated attribute (Track.album, the tracks
\* or the image_url of a collection, the image_url of a user) on an object that
\* lacks it goes to the owning client, which sends a request or answers from what
\* it has fetched before; and a read that follows a read of the same attribute
\* on the same object sends no request and returns what the first read stored,
\* whatever that was.
C18_LaterReadsStored ==
    (pc = "returned" /\ last.op.name \in LazyReads /\ last.exc = "none") =>
        /\ ~Stored(last.op.name, last.op.x).held =>
               (last.sent # <<>> \/ last.pre.cache # <<>>)
        /\ last.prev.op.name = last.op.name =>
               /\ last.sent = <<>>
               /\ Stored(last.op.name, last.ret).value
                      = Stored(last.op.name, last.prev.ret).value

\* ------------------------------------------------------------------ C19

\* The call sent a request for the tracks of the object, and the object holds
\* the tracks of the answer.
FreshTracks ==
    \E i \in DOMAIN last.sent :
        /\ last.sent[i].kind = "api"
        /\ last.sent[i].status = 200
        /\ \/ /\ last.sent[i].what = "GET playlist"
              /\ last.ret.tracks = ItemTracks(last.sent[i].resp.items)
           \/ /\ last.sent[i].what = "GET top-tracks"
              /\ last.ret.tracks = ItemTracks(last.sent[i].resp.tracks)

\* C19: every call of Playlist.update_tracks and of Artist.update_top_tracks
\* that returns has sent a request for the tracks, and leaves in the object the
\* tracks of the answer, also when the object was fetched or updated before.
C19_UpdateFetchesAgain ==
    (/\ pc = "returned"
     /\ last.op.name \in {"update_tracks", "update_top_tracks"}
     /\ last.exc = "none") => FreshTracks

\* ------------------------------------------------------------------ C20

\* C20: get called with an object that get returned before returns an object
\* of the same class with the same id, for Playlist, Album, Artist, Track and
\* User alike.
C20_GetOfObject ==
    (/\ pc = "returned"
     /\ last.op.name = "get"
     /\ last.prev.op.name = "get"
     /\ last.op.x = last.prev.ret) =>
        /\ last.exc = "none"
        /\ last.ret.cls = last.op.x.cls
        /\ last.ret.id = last.op.x.id

\* ------------------------------------------------------------------ C21

\* The kinds that get knows, and what the call of get was given.
GetKinds == {"playlist", "track", "artist", "album", "user"}

GetOfString == pc = "returned" /\ last.op.name = "get" /\ last.op.x.cls = "str"

\* The call raised ValueError and sent nothing, neither a grant nor a request.
RefusedUnsent == last.exc = "ValueError" /\ last.sent = <<>>

\* C21: get raises ValueError without sending anything for a string that is no
\* share link and comes without a result_type, for a share link of a kind other
\* than playlist, track, artist, album and user, and for an id that is not
\* alphanumeric given with a result_type; an alphanumeric id that the provider
\* does not know, given with a result_type, is asked of the provider and the
\* call raises SpotifyAPIException.
C21_GetValidates ==
    GetOfString =>
        /\ (last.op.x.kind = "missing" /\ last.op.result_types = <<>>) => RefusedUnsent
        /\ (last.op.x.kind # "missing" /\ last.op.x.kind \notin GetKinds) => RefusedUnsent
        /\ (/\ last.op.x.kind = "missing"
            /\ last.op.result_types # <<>>
            /\ last.op.x.id \in {"non_alnum_fake_id", "a-1"}) => RefusedUnsent
        /\ (/\ last.op.x.kind = "missing"
            /\ last.op.result_types # <<>>
            /\ last.op.x.id \in {"p2", "a9", "r9", "u9"}) =>
               /\ last.exc = "SpotifyAPIException"
               /\ last.response >= 400
               /\ \E i \in DOMAIN last.sent :
                      /\ last.sent[i].kind = "api"
                      /\ last.sent[i].status = last.response

C21_Witness ==
    /\ GetOfString
    /\ last.op.x.id = "u9"
    /\ last.op.result_types = <<"user">>
    /\ last.exc = "SpotifyAPIException"
    /\ last.sent # <<>>

\* ------------------------------------------------------------------ C22

\* The kind that the call of get named, in the link or as result_type.
AskedKind ==
    IF last.op.x.kind = "missing" THEN last.op.result_types[1] ELSE last.op.x.kind

AlbumReturned == pc = "returned" /\ last.op.name = "get_album" /\ last.exc = "none"

\* Every track of the album, on whatever page, lists the album's artist first.
AllByAlbumArtist ==
    \A i \in 1..Len(last.ret.tracks) : first_artist(last.ret.tracks[i]) = last.ret.artist

\* C23: in the album that get_album returns every track's artist is the
\* album's own artist object if and only if every track of the album lists the
\* album's artist first; otherwise each track's artist has the id of the
\* track's own first artist.
C23_SharedArtist ==
    AlbumReturned =>
        /\ AllByAlbumArtist <=>
               \A i \in 1..Len(last.ret.tracks) : last.ret.artists[i].shared
        /\ ~AllByAlbumArtist =>
               \A i \in 1..Len(last.ret.tracks) :
                   last.ret.artists[i].id = first_artist(last.ret.tracks[i])

\* ------------------------------------------------------------------ C24

\* A SpotifyAPI construction has just been made with a client id that was
\* registered.
MadeRegistered ==
    /\ Len(made') = Len(made) + 1
    /\ made'[Len(made')].cls = "SpotifyAPI"
    /\ instances[made'[Len(made')].client_id] # 0

\* C24: a construction with a registered client id returns the registered
\* instance, whatever secret and market it passes, and leaves the registry and
\* every field of that instance (secret, market, the tokens, the authorization
\* code, both expiries) as they were.
C24_ReuseKeepsClient ==
    [][MadeRegistered =>
          /\ made'[Len(made')].exc = "none"
          /\ made'[Len(made')].obj = instances[made'[Len(made')].client_id]
          /\ instances' = instances
          /\ heap' = heap]_vars

C24_Witness ==
    /\ Len(made) = 2
    /\ made[2].client_id = "idA"
    /\ made[2].client_secret = ""
    /\ made[2].obj = TheClient
    /\ heap[TheClient].client_secret = "s1"
    /\ heap[TheClient].user_token # ""
    /\ heap[TheClient].user_access_code # ""


\* ------------------------------------------------------------------ C25

\* An attribute read that had to fetch has just returned or raised.
Hydrated ==
    /\ pc = "returned"
    /\ last.prev.op.name # "none"
    /\ last.op.name \in {"Track.album", "tracks", "update_tracks", "update_top_tracks",
                         "image_url"}

\* C25: whenever an object that the client built fetches a missing attribute,
\* the lookup in the registry by the object's client id gives the client that
\* built the object, so the fetch is a call on that client and no
\* AttributeError comes of the lookup, whether or not the program still holds
\* the client.
C25_RegistryYieldsBuilder ==
    Hydrated => last.self = TheClient /\ last.exc # "AttributeError"

\* ------------------------------------------------------------------ C26

\* The requests that the listener handled in the call that returned last.
Handled == {i \in 1..Len(last.sent) : last.sent[i].kind = "handshake"}

\* C26: the listener handles one request and is closed before the state is
\* checked: the step in which a request reaches it ends the wait whatever the
\* outcome (no listener is left waiting for a second request), and the call
\* it belongs to has handled exactly that one request.
C26_ListenerClosed ==
    [][pc = "listening" /\ pending' # pending =>
           /\ pc' = "returned"
           /\ pending' = NoPending
           /\ last'.path # NoPath
           /\ \E i \in 1..Len(last'.sent) :
                  /\ last'.sent[i].kind = "handshake"
                  /\ last'.sent[i].body = last'.path
                  /\ \A j \in 1..Len(last'.sent) :
                         last'.sent[j].kind = "handshake" => j = i]_vars

\* A handshake has ended with a state that does not match.
C26_Witness ==
    /\ pc = "returned"
    /\ last.exc = "SpotifyUserAuthException"
    /\ last.state = "n1"
    /\ last.path = <<<<"code", "c1">>, <<"state", "n2">>>>
    /\ Cardinality(Handled) = 1
    /\ heap[last.self].user_access_code = ""

\* ------------------------------------------------------------------ C27

\* A method that changes the playlist has returned, and the object had its
\* tracks before, so the caller may hold the list that playlist.tracks gave.
MutatorReturned ==
    /\ pc = "returned"
    /\ last.op.name \in {"Playlist.add", "Playlist.extend", "Playlist.clear",
                         "Playlist.rearrange"}
    /\ last.pre_objs[last.op.pl].made
    /\ last.pre_objs[last.op.pl].loaded

\* C27: no method of a Playlist that changes it changes the list that the
\* caller got from playlist.tracks before: after add, extend, clear and
\* rearrange that list holds what it held.
C27_OldListUntouched ==
    MutatorReturned =>
        OldList(last.op, last.pre_objs[last.op.pl], last.exc = "none")
            = last.pre_objs[last.op.pl].tracks

\* ------------------------------------------------------------------ C28

\* C28: between calls (no get_private_playlist is under way) the client does
\* not prefer the user token, whatever calls succeeded or failed before, so a
\* get_playlist that the caller makes sends its requests with the app token.
C28_FlagDownBetweenCalls ==
    /\ ~heap[TheClient].prefer_user_token
    /\ pc = "returned" /\ last.op.name = "get_playlist" =>
           \A i \in 1..Len(last.sent) :
               last.sent[i].kind = "api" => last.sent[i].bearer = "app"

\* ------------------------------------------------------------------ C29

\* The grants of one kind that the provider answered with a token in the call
\* that returned last.
Granted(what) ==
    {i \in 1..Len(last.sent) :
         /\ last.sent[i].kind = "grant"
         /\ last.sent[i].what = what
         /\ last.sent[i].status = 200}

\* C29: a grant that fails changes no token field, a granted app token changes
\* the app token and its expiry only, and a granted refresh changes the user
\* token and its expiry only: after a call, a field differs from what it was
\* before the call only if a grant that assigns it went through (or, for the
\* authorization code, a handshake took place), and a grant that went through
\* has left its token in place.
C29_GrantsKeepOtherFields ==
    pc = "returned" /\ last.self # 0 =>
        \E c \in {heap[last.self]} :
          /\ Granted("client_credentials") = {} =>
                 c.token = last.pre.token /\ c.expires = last.pre.expires
          /\ Granted("authorization_code") \cup Granted("refresh_token") = {} =>
                 c.user_token = last.pre.user_token
                    /\ c.user_expires = last.pre.user_expires
          /\ Granted("authorization_code") = {} =>
                 c.user_refresh_token = last.pre.user_refresh_token
          /\ last.path = NoPath => c.user_access_code = last.pre.user_access_code
          /\ Granted("client_credentials") # {} =>
                 c.token = "app_token" /\ c.expires > last.pre.expires
          /\ Granted("refresh_token") # {} =>
                 c.user_token = "user_token" /\ c.user_expires > last.pre.user_expires

\* A call in which the refresh of the user token went through has returned.
C29_Witness ==
    /\ pc = "returned"
    /\ Granted("refresh_token") # {}
    /\ heap[last.self].user_refresh_token = "refresh_token"
    /\ heap[last.self].user_access_code = "c1"
    /\ heap[last.self].token = last.pre.token

\* ------------------------------------------------------------------ C30

\* The handshake of the call that returned last stored the authorization code.
CodeStored ==
    /\ last.pre.user_access_code = ""
    /\ heap[last.self].user_access_code # ""

\* C30: a handshake in which a request reached the listener ends in one of
\* three ways, whatever the request holds: the authorization code is stored,
\* or, with no code stored, SpotifyUserAuthException or SpotifyAPIException
\* is raised.
C30_ThreeOutcomes ==
    pc = "returned" /\ last.path # NoPath =>
        \/ CodeStored
        \/ ~CodeStored /\ last.exc \in {"SpotifyUserAuthException", "SpotifyAPIException"}

====
